---- MODULE Spec2Model ----
(***************************************************************************)
(* A model of the catalog/commerce backend: the per-user cart and wishlist *)
(* handlers running as concurrent requests against the document store      *)
(* (cart.controller.js, myList.controller.js), the cursor codec and the    *)
(* paginated listing (product/cart/category controllers), and the          *)
(* category-tree resolver (getDescendantCategoryIds).                      *)
(*                                                                         *)
(* Each part has its own specification over the shared variables:          *)
(*   Spec      concurrent cart and wishlist requests                       *)
(*   SpecPage  a client walking a listing by cursor and by offset          *)
(*   SpecCodec the cursor codec and list requests with arbitrary tokens    *)
(*   SpecTree  getDescendantCategoryIds on arbitrary parent graphs         *)
(***************************************************************************)
EXTENDS Integers, Sequences, FiniteSets, TLC

VARIABLES
  cart,          \* the cartProduct collection: a set of documents
  myList,        \* the MyList collection: a set of documents
  shoppingCart,  \* User.shopping_cart, per user: a set of cart item ids
  nextId,        \* the next fresh ObjectId the store hands out
  proc,          \* the requests in flight, one record per request
  unitAdds,      \* per (user, product): how many addToCart calls with
                 \* quantity 1 have been received
  docs,          \* a listed collection (products, cart items, categories):
                 \* documents with _id, createdAt and a filtered field
  sess,          \* a client walking a listing page by page
  codec,         \* a cursor being encoded and decoded
  parentOf,      \* Category.parentCategoryId, per category
  res,           \* a getDescendantCategoryIds call in progress
  find,          \* a name search answered by a list endpoint
  cats,          \* the Category collection under create, update, delete
  catNext,       \* the next fresh ObjectId of a category
  creq,          \* the category requests in flight, one record per request
  session,       \* User.refreshToken, the clock and the tokens handed out
  areq           \* the auth requests in flight, one record per request

cartVars == <<cart, myList, shoppingCart, nextId, proc, unitAdds>>
pageVars == <<docs, sess, codec>>
treeVars == <<parentOf, res>>
catVars == <<cats, catNext, creq>>
authVars == <<session, areq>>
auxVars == <<find, catVars, authVars>>
vars == <<cartVars, pageVars, treeVars, auxVars>>

(***************************************************************************)
(* Bounds of the model.                                                    *)
(***************************************************************************)
NProc == 3          \* concurrent request handlers
Stock == 3          \* countInstock of the product (fixed while the cart runs)
MaxHalf == 4        \* largest raw quantity sent, in halves (4 = 2.0)
NRec == 3           \* documents in a listed collection
MaxTime == 3        \* createdAt of a document: 1..MaxTime
MaxLimitIn == 2     \* largest limit parameter a client sends
TimeDigits == 2     \* decimal digits of a timestamp's text
IdHexLen == 2       \* hex digits of an ObjectId's text
NCat == 4           \* categories
MaxDepthIn == 3     \* largest maxDepth parameter a client sends
MaxInserts == 2     \* documents created while a listing is walked

\* parsePagination's default and largest limit
DefaultLimit == 10
MaxLimit == 100

Procs == 1..NProc
Users == {"u1", "u2"}
Products == {"p1"}
\* what a request may send as productId: a product, a well-formed id of no
\* product, a string that is no ObjectId
ProductInputs == Products \cup {"gone", "bad"}
\* what a request may send as cartItemId / myListItemId: 0 is a string that is
\* no ObjectId, the others are well-formed ids
ItemInputs == 0..NProc
\* Product.countInstock
countInstock == [p \in Products |-> Stock]

\* raw quantity of a request body: absent, a value Number() turns into NaN or
\* an infinity (such as "abc" or "Infinity"), or a number given in halves
QtyInputs == {[kind |-> "absent", half |-> 0], [kind |-> "text", half |-> 0]}
               \cup {[kind |-> "num", half |-> h] : h \in (-1)..MaxHalf}

NoQty == -1000      \* normalizeQuantity's null

\* cart.controller.js normalizeQuantity: Number(value), null unless finite,
\* else Math.floor
normalizeQuantity(value) ==
  IF value.kind \in {"absent", "text"} THEN NoQty ELSE value.half \div 2

\* the handlers read a quantity through normalizeQuantity alone: of the raw
\* quantities that normalize to one value, a request sends one
QtySent ==
  {CHOOSE raw \in QtyInputs : normalizeQuantity(raw) = n :
     n \in {normalizeQuantity(raw) : raw \in QtyInputs}}

\* mongoose.isValidObjectId on a productId input
isValidProductId(pid) == pid # "bad"
\* mongoose.isValidObjectId on a cartItemId / myListItemId input
isValidItemId(id) == id # 0

\* `!normalizedQuantity || normalizedQuantity < 1`
QuantityRejected(q) == q = NoQty \/ q = 0 \/ q < 1

\* a stock check that is off by one
ExceedsStockOffByOne(q, stock) == q > stock + 1

\* `updatedQuantity > product.countInstock`
ExceedsStock(q, stock) == q > stock

\* a collection without the unique index: no insert is refused
NoUniqueIndex(coll, u, pid) == FALSE

\* the unique index {userId: 1, productId: 1}: an insert of (u, pid) into coll
\* is refused with E11000
DuplicateKey(coll, u, pid) ==
  \E d \in coll : d.userId = u /\ d.productId = pid

\* a lookup by id alone, whoever the owner is
FindAnyOwner(coll, id, u) == {d \in coll : d.id = id}

\* Model.findOne({userId, productId}): the matching documents
FindByPair(coll, u, pid) == {d \in coll : d.userId = u /\ d.productId = pid}
\* Model.findOne({_id, userId})
FindOwned(coll, id, u) == {d \in coll : d.id = id /\ d.userId = u}

\* document.save() after `doc.quantity = q`: an update of the document with
\* that _id, setting the field to the value computed by the handler
SaveQuantity(coll, id, q) ==
  {IF d.id = id THEN [d EXCEPT !.quantity = q] ELSE d : d \in coll}

Idle == [pc |-> "idle", op |-> "none", user |-> "none", productId |-> "none",
         qty |-> 0, docId |-> 0, newQty |-> 0, stock |-> 0, dirty |-> FALSE,
         status |-> 0, foreign |-> FALSE, err |-> "none"]

\* a request that has been answered with status st (the response status, or
\* the status of the ApiError thrown, 500 for an error that is no ApiError):
\* the handler keeps nothing, the client has the status
Done(r, st) ==
  [Idle EXCEPT !.pc = "done", !.status = st,
               !.err = CASE st \in {200, 201} -> "none"
                         [] st = 400 -> "invalid"
                         [] st = 404 -> "notFound"
                         [] st = 409 -> "conflict"
                         [] OTHER -> "untyped"]
\* new ApiError(400, 'Requested quantity exceeds available stock')
OverStock(r) == [Done(r, 400) EXCEPT !.err = "stock"]

\* the id names a document of the collection that belongs to another user
Foreign(coll, id, u) == \E d \in coll : d.id = id /\ d.userId # u
\* what becomes of a request that named a relation by id; foreign records
\* whether the request passed validation and the relation was another user's
Answer(r, foreign) == [r EXCEPT !.foreign = foreign]

\* requests are numbered in order of arrival
CanStart(p) == proc[p].pc = "idle" /\ \A q \in Procs : q < p => proc[q].pc # "idle"
\* the users a request may come from; the users differ in name only, so the
\* first request is taken to come from u1
Callers(p) == IF p = 1 THEN {"u1"} ELSE Users

InitCart ==
  /\ cart = {}
  /\ myList = {}
  /\ shoppingCart = [u \in Users |-> {}]
  /\ nextId = 1
  /\ proc = [p \in Procs |-> Idle]
  /\ unitAdds = [u \in Users |-> [p \in Products |-> 0]]

(***************************************************************************)
(* addToCartItemController                                                 *)
(***************************************************************************)
\* lines 74-85: validation, then Product.findById (the products do not change
\* while the cart runs, so the read is taken together with the validation)
AddStartBy(p, u, pid, raw) ==
  /\ CanStart(p)
  /\ LET n0 == normalizeQuantity(raw)
         n == IF n0 = NoQty THEN 1 ELSE n0
         r == [Idle EXCEPT !.op = "add", !.user = u, !.productId = pid,
                           !.qty = n]
     IN /\ proc' = [proc EXCEPT ![p] =
             IF ~isValidProductId(pid) THEN Done(r, 400)
             ELSE IF QuantityRejected(n) THEN Done(r, 400)
             ELSE IF pid \notin Products THEN Done(r, 404)
             ELSE [r EXCEPT !.pc = "add_findOne", !.stock = countInstock[pid]]]
        /\ unitAdds' = IF pid \in Products /\ n = 1
                        THEN [unitAdds EXCEPT ![u][pid] = @ + 1]
                        ELSE unitAdds
  /\ UNCHANGED <<cart, myList, shoppingCart, nextId, pageVars, treeVars, auxVars>>
AddStart(p) ==
  /\ CanStart(p)
  /\ \E u \in Callers(p), pid \in ProductInputs, raw \in QtySent :
       AddStartBy(p, u, pid, raw)

\* lines 87-96 and 103-105: CartProduct.findOne and the stock checks
AddFindOne(p) ==
  LET r == proc[p]
      found == FindByPair(cart, r.user, r.productId)
  IN /\ r.pc = "add_findOne"
     /\ IF found # {}
        THEN \E d \in found :
               proc' = [proc EXCEPT ![p] =
                 IF ExceedsStock(d.quantity + r.qty, r.stock) THEN OverStock(r)
                 ELSE [r EXCEPT !.pc = "add_save", !.docId = d.id,
                                !.newQty = d.quantity + r.qty]]
        ELSE proc' = [proc EXCEPT ![p] =
                 IF ExceedsStock(r.qty, r.stock) THEN OverStock(r)
                 ELSE [r EXCEPT !.pc = "add_create"]]
     /\ UNCHANGED <<cart, myList, shoppingCart, nextId, unitAdds, pageVars, treeVars, auxVars>>

\* lines 97-101: existingCartItem.save(); a save that finds no document with
\* the _id throws DocumentNotFoundError, which is no ApiError
AddSave(p) ==
  LET r == proc[p]
      st == IF \E d \in cart : d.id = r.docId THEN 200 ELSE 500
  IN /\ r.pc = "add_save"
     /\ cart' = SaveQuantity(cart, r.docId, r.newQty)
     /\ proc' = [proc EXCEPT ![p] = Done(r, st)]
     /\ UNCHANGED <<myList, shoppingCart, nextId, unitAdds, pageVars, treeVars, auxVars>>

\* lines 106-111 and 120-121: CartProduct.create, E11000 on a duplicate pair
AddCreate(p) ==
  LET r == proc[p] IN
  /\ r.pc = "add_create"
  /\ IF DuplicateKey(cart, r.user, r.productId)
     THEN /\ proc' = [proc EXCEPT ![p] = [r EXCEPT !.pc = "add_conflictRead"]]
          /\ UNCHANGED <<cart, nextId>>
     ELSE /\ cart' = cart \cup {[id |-> nextId, userId |-> r.user,
                                 productId |-> r.productId, quantity |-> r.qty]}
          /\ nextId' = nextId + 1
          /\ proc' = [proc EXCEPT ![p] =
               [r EXCEPT !.pc = "add_addToSet", !.docId = nextId]]
  /\ UNCHANGED <<myList, shoppingCart, unitAdds, pageVars, treeVars, auxVars>>

\* lines 113-119: $addToSet on User.shopping_cart, then the 201
AddToSet(p) ==
  LET r == proc[p] IN
  /\ r.pc = "add_addToSet"
  /\ shoppingCart' = [shoppingCart EXCEPT ![r.user] = @ \cup {r.docId}]
  /\ proc' = [proc EXCEPT ![p] = Done(r, 201)]
  /\ UNCHANGED <<cart, myList, nextId, unitAdds, pageVars, treeVars, auxVars>>

\* lines 122-134: the re-read after E11000 and its stock check
AddConflictRead(p) ==
  LET r == proc[p]
      found == FindByPair(cart, r.user, r.productId)
  IN /\ r.pc = "add_conflictRead"
     /\ IF found = {}
        THEN proc' = [proc EXCEPT ![p] = Done(r, 409)]
        ELSE \E d \in found :
               proc' = [proc EXCEPT ![p] =
                 IF ExceedsStock(d.quantity + r.qty, r.stock) THEN OverStock(r)
                 ELSE [r EXCEPT !.pc = "add_conflictSave", !.docId = d.id,
                                !.newQty = d.quantity + r.qty]]
     /\ UNCHANGED <<cart, myList, shoppingCart, nextId, unitAdds, pageVars, treeVars, auxVars>>

\* lines 136-141: conflictItem.save()
AddConflictSave(p) ==
  LET r == proc[p]
      st == IF \E d \in cart : d.id = r.docId THEN 200 ELSE 500
  IN /\ r.pc = "add_conflictSave"
     /\ cart' = SaveQuantity(cart, r.docId, r.newQty)
     /\ proc' = [proc EXCEPT ![p] = Done(r, st)]
     /\ UNCHANGED <<myList, shoppingCart, nextId, unitAdds, pageVars, treeVars, auxVars>>

(***************************************************************************)
(* updateCartItemQuantityController                                        *)
(***************************************************************************)
\* lines 222-248: validation, CartProduct.findOne({_id, userId}),
\* Product.findById (taken with it: the products do not change) and the stock
\* check
UpdStartBy(p, u, id, raw) ==
  /\ CanStart(p)
  /\ LET n == normalizeQuantity(raw)
         r == [Idle EXCEPT !.op = "update", !.user = u, !.qty = n]
         found == FindOwned(cart, id, u)
     IN IF ~isValidItemId(id) \/ QuantityRejected(n)
        THEN proc' = [proc EXCEPT ![p] = Done(r, 400)]
        ELSE IF found = {}
        THEN proc' = [proc EXCEPT ![p] = Answer(Done(r, 404), Foreign(cart, id, u))]
        ELSE \E d \in found :
               proc' = [proc EXCEPT ![p] = Answer(
                 IF ExceedsStock(n, countInstock[d.productId]) THEN OverStock(r)
                 ELSE [r EXCEPT !.pc = "upd_save", !.docId = d.id,
                                !.newQty = n, !.dirty = (d.quantity # n)],
                 Foreign(cart, id, u))]
  /\ UNCHANGED <<cart, myList, shoppingCart, nextId, unitAdds, pageVars, treeVars, auxVars>>
UpdStart(p) ==
  /\ CanStart(p)
  /\ \E u \in Callers(p), id \in ItemInputs, raw \in QtySent : UpdStartBy(p, u, id, raw)

\* lines 250-255: cartItem.save(); a document whose quantity was assigned the
\* value it already had is not modified, and its save sends nothing
UpdSave(p) ==
  LET r == proc[p] IN
  /\ r.pc = "upd_save"
  /\ cart' = IF r.dirty THEN SaveQuantity(cart, r.docId, r.newQty) ELSE cart
  /\ proc' = [proc EXCEPT ![p] =
       IF ~r.dirty \/ \E d \in cart : d.id = r.docId
       THEN Done(r, 200) ELSE Done(r, 500)]
  /\ UNCHANGED <<myList, shoppingCart, nextId, unitAdds, pageVars, treeVars, auxVars>>

(***************************************************************************)
(* deleteCartItemQuantityController, clearCartController                   *)
(***************************************************************************)
\* lines 259-272: validation and CartProduct.findOneAndDelete({_id, userId})
DelStartBy(p, u, id) ==
  /\ CanStart(p)
  /\ LET r == [Idle EXCEPT !.op = "delete", !.user = u]
         found == FindOwned(cart, id, u)
     IN IF ~isValidItemId(id)
        THEN /\ proc' = [proc EXCEPT ![p] = Done(r, 400)]
             /\ cart' = cart
        ELSE IF found = {}
        THEN /\ proc' = [proc EXCEPT ![p] = Answer(Done(r, 404), Foreign(cart, id, u))]
             /\ cart' = cart
        ELSE /\ cart' = cart \ found
             /\ proc' = [proc EXCEPT ![p] =
                  Answer([r EXCEPT !.pc = "del_pull", !.docId = id],
                         Foreign(cart, id, u))]
  /\ UNCHANGED <<myList, shoppingCart, nextId, unitAdds, pageVars, treeVars, auxVars>>
DelStart(p) ==
  /\ CanStart(p)
  /\ \E u \in Callers(p), id \in ItemInputs : DelStartBy(p, u, id)

\* lines 274-280: $pull from User.shopping_cart
DelPull(p) ==
  LET r == proc[p] IN
  /\ r.pc = "del_pull"
  /\ shoppingCart' = [shoppingCart EXCEPT ![r.user] = @ \ {r.docId}]
  /\ proc' = [proc EXCEPT ![p] = Done(r, 200)]
  /\ UNCHANGED <<cart, myList, nextId, unitAdds, pageVars, treeVars, auxVars>>

\* line 284: CartProduct.deleteMany({userId})
ClearStartBy(p, u) ==
  /\ CanStart(p)
  /\ cart' = {d \in cart : d.userId # u}
  /\ proc' = [proc EXCEPT ![p] =
       [Idle EXCEPT !.op = "clear", !.user = u, !.pc = "clear_set"]]
  /\ UNCHANGED <<myList, shoppingCart, nextId, unitAdds, pageVars, treeVars, auxVars>>
ClearStart(p) ==
  /\ CanStart(p)
  /\ \E u \in Callers(p) : ClearStartBy(p, u)

\* lines 286-294: $set shopping_cart to []
ClearSet(p) ==
  LET r == proc[p] IN
  /\ r.pc = "clear_set"
  /\ shoppingCart' = [shoppingCart EXCEPT ![r.user] = {}]
  /\ proc' = [proc EXCEPT ![p] = Done(r, 200)]
  /\ UNCHANGED <<cart, myList, nextId, unitAdds, pageVars, treeVars, auxVars>>

(***************************************************************************)
(* addMyListController, deleteMyListController                             *)
(***************************************************************************)
\* lines 9-18: validation and Product.findById
ListStart(p) ==
  /\ CanStart(p)
  /\ \E u \in Callers(p), pid \in ProductInputs :
       LET r == [Idle EXCEPT !.op = "listAdd", !.user = u, !.productId = pid]
       IN proc' = [proc EXCEPT ![p] =
            IF ~isValidProductId(pid) THEN Done(r, 400)
            ELSE IF pid \notin Products THEN Done(r, 404)
            ELSE [r EXCEPT !.pc = "list_findOne"]]
  /\ UNCHANGED <<cart, myList, shoppingCart, nextId, unitAdds, pageVars, treeVars, auxVars>>

\* lines 20-29: MyList.findOne
ListFindOne(p) ==
  LET r == proc[p] IN
  /\ r.pc = "list_findOne"
  /\ proc' = [proc EXCEPT ![p] =
       IF FindByPair(myList, r.user, r.productId) # {} THEN Done(r, 200)
       ELSE [r EXCEPT !.pc = "list_create"]]
  /\ UNCHANGED <<cart, myList, shoppingCart, nextId, unitAdds, pageVars, treeVars, auxVars>>

\* lines 31-41: MyList.create, E11000 on a duplicate pair
ListCreate(p) ==
  LET r == proc[p] IN
  /\ r.pc = "list_create"
  /\ IF DuplicateKey(myList, r.user, r.productId)
     THEN /\ proc' = [proc EXCEPT ![p] = [r EXCEPT !.pc = "list_conflictRead"]]
          /\ UNCHANGED <<myList, nextId>>
     ELSE /\ myList' = myList \cup {[id |-> nextId, userId |-> r.user,
                                     productId |-> r.productId]}
          /\ nextId' = nextId + 1
          /\ proc' = [proc EXCEPT ![p] = Done(r, 201)]
  /\ UNCHANGED <<cart, shoppingCart, unitAdds, pageVars, treeVars, auxVars>>

\* lines 42-53: the re-read after E11000
ListConflictRead(p) ==
  LET r == proc[p] IN
  /\ r.pc = "list_conflictRead"
  /\ proc' = [proc EXCEPT ![p] =
       IF FindByPair(myList, r.user, r.productId) # {} THEN Done(r, 200)
       ELSE Done(r, 409)]
  /\ UNCHANGED <<cart, myList, shoppingCart, nextId, unitAdds, pageVars, treeVars, auxVars>>

\* lines 61-78: validation and MyList.findOneAndDelete({_id, userId})
ListDeleteBy(p, u, id) ==
  /\ CanStart(p)
  /\ LET r == [Idle EXCEPT !.op = "listDelete", !.user = u]
         found == FindOwned(myList, id, u)
     IN /\ myList' = IF isValidItemId(id) THEN myList \ found ELSE myList
        /\ proc' = [proc EXCEPT ![p] =
             IF ~isValidItemId(id) THEN Done(r, 400)
             ELSE Answer(IF found = {} THEN Done(r, 404) ELSE Done(r, 200),
                         Foreign(myList, id, u))]
  /\ UNCHANGED <<cart, shoppingCart, nextId, unitAdds, pageVars, treeVars, auxVars>>
ListDelete(p) ==
  /\ CanStart(p)
  /\ \E u \in Callers(p), id \in ItemInputs : ListDeleteBy(p, u, id)

(***************************************************************************)
(* The cursor codec (encodeCursor, decodeCursor).  A Date is its number of  *)
(* milliseconds, an ObjectId is a number; their text forms are digit        *)
(* strings: toISOString gives TimeDigits decimal digits and "Z" (the ISO    *)
(* form with all its fields), ObjectId.toString gives IdHexLen lower-case   *)
(* hex digits.  The token is base64 of the JSON text of the payload; the    *)
(* model keeps the payload and writes a token that is no base64 of any JSON *)
(* text as kind "garbage".                                                  *)
(***************************************************************************)
Dec == <<"0", "1", "2", "3", "4", "5", "6", "7", "8", "9">>
HexLower == Dec \o <<"a", "b", "c", "d", "e", "f">>
HexUpper == Dec \o <<"A", "B", "C", "D", "E", "F">>

RECURSIVE Pow(_, _)
Pow(b, e) == IF e = 0 THEN 1 ELSE b * Pow(b, e - 1)

MaxDate == Pow(10, TimeDigits) - 1
MaxObjectId == Pow(16, IdHexLen) - 1

\* the w digits of n in the base of the alphabet, most significant first
Digits(n, w, alphabet) ==
  [i \in 1..w |-> alphabet[((n \div Pow(Len(alphabet), w - i)) % Len(alphabet)) + 1]]

IsDigit(c, alphabet) == \E i \in 1..Len(alphabet) : alphabet[i] = c
DigitValue(c, alphabet) == (CHOOSE i \in 1..Len(alphabet) : alphabet[i] = c) - 1

RECURSIVE NumberOf(_, _)
NumberOf(str, alphabet) ==
  IF str = <<>> THEN 0
  ELSE NumberOf(SubSeq(str, 1, Len(str) - 1), alphabet) * Len(alphabet)
         + DigitValue(str[Len(str)], alphabet)

\* JSON values of the payload's fields
JAbsent == [k |-> "absent", s |-> <<>>, n |-> 0]
JStr(str) == [k |-> "str", s |-> str, n |-> 0]
JNum(num) == [k |-> "num", s |-> <<>>, n |-> num]
\* `!decoded?.createdAt`: undefined, null, "" and 0 are falsy
Truthy(v) == (v.k = "str" /\ v.s # <<>>) \/ (v.k = "num" /\ v.n # 0)

\* a Date.toISOString that keeps one digit less (a coarser resolution)
toISOStringCoarse(t) == SubSeq(Digits(t, TimeDigits, Dec), 1, TimeDigits - 1) \o <<"Z">>

\* Date.prototype.toISOString
toISOString(t) == Digits(t, TimeDigits, Dec) \o <<"Z">>

\* ObjectId.prototype.toString
toHexString(id) == Digits(id, IdHexLen, HexLower)

NaN == -1
\* new Date(value).getTime(): a number is the instant itself; a string is
\* parsed as an ISO date, whose low-order fields may be left out (they are
\* zero then); anything else is an invalid date
DateParse(v) ==
  IF v.k = "num" THEN v.n
  ELSE IF /\ v.k = "str"
          /\ Len(v.s) >= 2 /\ Len(v.s) <= TimeDigits + 1
          /\ v.s[Len(v.s)] = "Z"
          /\ \A i \in 1..(Len(v.s) - 1) : IsDigit(v.s[i], Dec)
       THEN NumberOf(SubSeq(v.s, 1, Len(v.s) - 1), Dec)
              * Pow(10, TimeDigits + 1 - Len(v.s))
       ELSE NaN

HexValue(c) == IF IsDigit(c, HexLower) THEN DigitValue(c, HexLower)
               ELSE DigitValue(c, HexUpper)
\* mongoose.isValidObjectId on a string: IdHexLen hex digits of either case
isValidObjectId(v) ==
  /\ v.k = "str"
  /\ Len(v.s) = IdHexLen
  /\ \A i \in 1..IdHexLen : IsDigit(v.s[i], HexLower) \/ IsDigit(v.s[i], HexUpper)
RECURSIVE HexNumber(_)
HexNumber(str) ==
  IF str = <<>> THEN 0
  ELSE HexNumber(SubSeq(str, 1, Len(str) - 1)) * 16 + HexValue(str[Len(str)])
\* new mongoose.Types.ObjectId(string)
ObjectIdOf(v) == HexNumber(v.s)

NoToken == [kind |-> "none", createdAt |-> JAbsent, id |-> JAbsent]
Garbage == [kind |-> "garbage", createdAt |-> JAbsent, id |-> JAbsent]
Token(c, i) == [kind |-> "json", createdAt |-> c, id |-> i]

\* encodeCursor(doc), lines 26-32
encodeCursor(doc) == Token(JStr(toISOString(doc.createdAt)), JStr(toHexString(doc.id)))

InvalidCursor == [ok |-> FALSE, createdAt |-> 0, id |-> 0]
\* a decodeCursor that takes an unreadable timestamp for the epoch
decodeCursorClamping(value) ==
  IF value.kind # "json" \/ ~Truthy(value.id) \/ ~isValidObjectId(value.id)
  THEN InvalidCursor
  ELSE [ok |-> TRUE,
        createdAt |-> IF DateParse(value.createdAt) = NaN THEN 0
                      ELSE DateParse(value.createdAt),
        id |-> ObjectIdOf(value.id)]

\* decodeCursor(value), lines 34-52: the cursor, or ApiError(400, 'Invalid
\* cursor')
decodeCursor(value) ==
  IF value.kind # "json" THEN InvalidCursor
  ELSE IF ~Truthy(value.createdAt) \/ ~Truthy(value.id) THEN InvalidCursor
  ELSE IF DateParse(value.createdAt) = NaN THEN InvalidCursor
  ELSE IF ~isValidObjectId(value.id) THEN InvalidCursor
  ELSE [ok |-> TRUE, createdAt |-> DateParse(value.createdAt),
        id |-> ObjectIdOf(value.id)]

(***************************************************************************)
(* Queries.  A filter is a small tree: {} ("all"), an equality on the       *)
(* filtered field ("eq": userId for the cart, category for products), the   *)
(* keyset filter of a cursor, or $and of two filters.                       *)
(***************************************************************************)
QAll == [kind |-> "all"]
QEq(g) == [kind |-> "eq", grp |-> g]
QNull == [kind |-> "null"]
\* query.category = {$in: categoryIds} and query.category = categoryId
QIn(S) == [kind |-> "in", cats |-> S]
QCat(c) == [kind |-> "cat", cat |-> c]

\* a keyset filter without the tie-break on _id
buildCursorFilterNoTieBreak(cursor, sortKey) ==
  [kind |-> "keyset", oldest |-> (sortKey = "oldest"),
   createdAt |-> cursor.createdAt, id |-> cursor.id, tie |-> "none"]

\* buildCursorFilter(cursor, sortKey), lines 54-70
buildCursorFilter(cursor, sortKey) ==
  [kind |-> "keyset", oldest |-> (sortKey = "oldest"),
   createdAt |-> cursor.createdAt, id |-> cursor.id, tie |-> "strict"]

\* a combination in which the cursor filter takes the place of the base query
combineQueryOverwrite(baseQuery, extraQuery) ==
  IF extraQuery.kind = "null" THEN baseQuery ELSE extraQuery

\* combineQuery(baseQuery, extraQuery), lines 72-76
combineQuery(baseQuery, extraQuery) ==
  IF extraQuery.kind = "null" THEN baseQuery
  ELSE IF baseQuery.kind = "all" THEN extraQuery
  ELSE [kind |-> "and", left |-> baseQuery, right |-> extraQuery]

\* a keyset comparison that lets the document of the cursor through
MatchesKeysetInclusive(d, q) ==
  IF q.oldest
  THEN \/ d.createdAt > q.createdAt
       \/ q.tie = "strict" /\ d.createdAt = q.createdAt /\ d.id >= q.id
  ELSE \/ d.createdAt < q.createdAt
       \/ q.tie = "strict" /\ d.createdAt = q.createdAt /\ d.id <= q.id

\* the store's evaluation of the $or of buildCursorFilter on a document
MatchesKeyset(d, q) ==
  IF q.oldest
  THEN \/ d.createdAt > q.createdAt
       \/ q.tie = "strict" /\ d.createdAt = q.createdAt /\ d.id > q.id
  ELSE \/ d.createdAt < q.createdAt
       \/ q.tie = "strict" /\ d.createdAt = q.createdAt /\ d.id < q.id

\* the store's evaluation of a filter on a document
RECURSIVE Matches(_, _)
Matches(d, q) ==
  CASE q.kind = "all" -> TRUE
    [] q.kind = "eq" -> d.grp = q.grp
    [] q.kind = "keyset" -> MatchesKeyset(d, q)
    [] q.kind = "and" -> Matches(d, q.left) /\ Matches(d, q.right)
    [] q.kind = "in" -> d.category \in q.cats
    [] q.kind = "cat" -> d.category = q.cat
    [] OTHER -> FALSE

\* a buildSort whose default is the oldest-first order
buildSortOldestDefault(sortKey) ==
  CASE sortKey = "price_asc" -> [field |-> "price", dir |-> 1]
    [] sortKey = "price_desc" -> [field |-> "price", dir |-> -1]
    [] sortKey = "rating_desc" -> [field |-> "rating", dir |-> -1]
    [] sortKey = "newest" -> [field |-> "createdAt", dir |-> -1]
    [] OTHER -> [field |-> "createdAt", dir |-> 1]

\* buildSort(sortKey), lines 80-93
buildSort(sortKey) ==
  CASE sortKey = "price_asc" -> [field |-> "price", dir |-> 1]
    [] sortKey = "price_desc" -> [field |-> "price", dir |-> -1]
    [] sortKey = "rating_desc" -> [field |-> "rating", dir |-> -1]
    [] sortKey = "oldest" -> [field |-> "createdAt", dir |-> 1]
    [] OTHER -> [field |-> "createdAt", dir |-> -1]

\* parseInt(value, 10) || dflt: an absent parameter and a text that starts
\* with no number give NaN, and NaN and 0 give way to dflt
ParseIntOr(raw, dflt) ==
  IF raw.kind # "num" \/ raw.n = 0 THEN dflt ELSE raw.n
Max2(a, b) == IF a >= b THEN a ELSE b
Min2(a, b) == IF a <= b THEN a ELSE b
\* a pagination that leaves the limit as large as asked
parsePaginationNoCap(page, limit) ==
  [pageNumber |-> Max2(ParseIntOr(page, 1), 1),
   limitNumber |-> Max2(ParseIntOr(limit, DefaultLimit), 1)]
\* parsePagination(page, limit), lines 20-24
parsePagination(page, limit) ==
  [pageNumber |-> Max2(ParseIntOr(page, 1), 1),
   limitNumber |-> Min2(Max2(ParseIntOr(limit, DefaultLimit), 1), MaxLimit)]

\* .sort({createdAt: dir, _id: dir}): d comes before e
CursorBefore(d, e, oldest) ==
  IF oldest
  THEN d.createdAt < e.createdAt \/ (d.createdAt = e.createdAt /\ d.id < e.id)
  ELSE d.createdAt > e.createdAt \/ (d.createdAt = e.createdAt /\ d.id > e.id)

\* find(...).sort(cursorSort): the documents of S in the order of the sort,
\* which is total
RECURSIVE SortCursor(_, _)
SortCursor(S, oldest) ==
  IF S = {} THEN <<>>
  ELSE LET first == CHOOSE d \in S : \A e \in S \ {d} : CursorBefore(d, e, oldest)
       IN <<first>> \o SortCursor(S \ {first}, oldest)

Take(seq, n) == SubSeq(seq, 1, Min2(n, Len(seq)))

\* a cursor branch that fetches limitNumber documents and takes a full page
\* for the sign of a next one
CursorPageNoExtra(coll, baseQuery, sortKey, limitNumber, cursor) ==
  LET cursorFilter == buildCursorFilter(cursor, sortKey)
      finalQuery == combineQuery(baseQuery, cursorFilter)
      items == Take(SortCursor({d \in coll : Matches(d, finalQuery)},
                               sortKey = "oldest"), limitNumber)
      hasNextPage == Len(items) >= limitNumber
  IN [items |-> items, hasNextPage |-> hasNextPage,
      nextCursor |-> IF hasNextPage THEN encodeCursor(items[Len(items)])
                     ELSE NoToken]

\* the cursor branch of a list handler after decodeCursor (product
\* controller lines 251-264): the page and what the response says of it
CursorPage(coll, baseQuery, sortKey, limitNumber, cursor) ==
  LET cursorFilter == buildCursorFilter(cursor, sortKey)
      finalQuery == combineQuery(baseQuery, cursorFilter)
      found == Take(SortCursor({d \in coll : Matches(d, finalQuery)},
                               sortKey = "oldest"), limitNumber + 1)
      hasNextPage == Len(found) > limitNumber
      items == IF hasNextPage THEN SubSeq(found, 1, Len(found) - 1) ELSE found
  IN [items |-> items, hasNextPage |-> hasNextPage,
      nextCursor |-> IF hasNextPage THEN encodeCursor(items[Len(items)])
                     ELSE NoToken]

\* find(query).sort(sort): the orders the store may return the documents of S
\* in: every order that respects the sort key (documents that tie on it come
\* in any order)
SortedOrders(S, sort) ==
  {o \in [1..Cardinality(S) -> S] :
     /\ \A i, j \in 1..Cardinality(S) : i # j => o[i] # o[j]
     /\ \A i, j \in 1..Cardinality(S) :
          i < j => IF sort.dir = 1 THEN o[i].createdAt <= o[j].createdAt
                   ELSE o[i].createdAt >= o[j].createdAt}

\* Math.ceil(total / limit)
CeilDiv(a, b) == (a + b - 1) \div b

(***************************************************************************)
(* A client of a list endpoint (listProducts, getCartItemController,        *)
(* getAllCategories): it sends a first request and follows nextCursor until *)
(* hasNextPage is false, then reads the same listing by page number.        *)
(***************************************************************************)
Groups == {"g1", "g2"}
DocIds == 1..NRec
BaseQueries == {QAll, QEq("g1")}
SortInputs == {"absent", "newest", "oldest", "price_asc"}
\* every value of the sort enumeration, and no sort parameter
SortKeys == SortInputs \cup {"price_desc", "rating_desc"}
RawAbsent == [kind |-> "absent", n |-> 0]
RawNum(n) == [kind |-> "num", n |-> n]
\* a query parameter that starts with no number ("abc", "")
RawText == [kind |-> "text", n |-> 0]
LimitInputs == {RawAbsent} \cup {RawNum(n) : n \in (-1)..MaxLimitIn}
\* the page and limit parameters of an offset request: absent, not a number,
\* zero, negative, in range, and beyond the data or the cap
PageInputs == {RawAbsent, RawText} \cup {RawNum(n) : n \in (-1)..(NRec + 1)}
OffsetLimits == LimitInputs \cup {RawText, RawNum(MaxLimit), RawNum(MaxLimit + 1)}

Ids(items) == [i \in 1..Len(items) |-> items[i].id]

NoPosition == [valid |-> FALSE, createdAt |-> 0, id |-> 0]
Position(t, n) == [valid |-> TRUE, createdAt |-> t, id |-> n]
\* positions in front of every document, for each direction
HeadNewest == Position(MaxTime + 1, NRec + 1)
HeadOldest == Position(0, 0)

\* the last answer of the offset branch: the page parameter it was asked
\* with, pagination {total, page, limit, totalPages}, the skip it used and
\* the items of the page
NoAnswer == [answered |-> FALSE, asked |-> RawAbsent, total |-> 0, page |-> 0,
             limit |-> 0, totalPages |-> 0, skip |-> 0, items |-> <<>>]
IdleSess == [pc |-> "idle", sortKey |-> "absent", limit |-> RawAbsent,
             base |-> QAll, start |-> NoPosition, first |-> NoToken,
             cursor |-> NoToken, out |-> <<>>, pages |-> 0, page |-> RawNum(1),
             offOut |-> <<>>, status |-> "none", last |-> NoAnswer]
IdleCodec == [pc |-> "idle", doc |-> Position(0, 0), token |-> NoToken,
              decoded |-> InvalidCursor]

\* the collections a listing may run on: NRec documents, any value of the
\* filtered field and any createdAt, equal ones included; only the order of
\* the instants matters, so the instants in use are 1..k
DocSets ==
  {{[id |-> i, createdAt |-> f[i].createdAt, grp |-> f[i].grp] : i \in DocIds} :
     f \in {g \in [DocIds -> [createdAt : 1..MaxTime, grp : Groups]] :
              \A i \in DocIds : g[i].createdAt = 1
                                   \/ \E j \in DocIds : g[j].createdAt = g[i].createdAt - 1}}
\* the collection the forged requests run on
SampleDocs ==
  {[id |-> i, createdAt |-> ((2 * i) % MaxTime) + 1,
    grp |-> IF i % 2 = 0 THEN "g2" ELSE "g1"] : i \in DocIds}
\* the limit parameters of a walk
WalkLimits == {RawAbsent} \cup {RawNum(n) : n \in 1..MaxLimitIn}

\* the first request of a walk: the token is the cursor of a document of the
\* collection or of a position in front of all documents, or is absent (the
\* listing is read by page number alone), or is no token at all
WalkBegin ==
  /\ sess.pc = "idle"
  /\ \E sortKey \in SortInputs, limit \in WalkLimits, base \in BaseQueries,
        start \in {NoPosition, HeadNewest, HeadOldest}
                    \cup {Position(d.createdAt, d.id) : d \in docs},
        garbage \in BOOLEAN :
       /\ garbage => ~start.valid
       /\ (~start.valid /\ ~garbage) => buildSort(sortKey).field = "createdAt"
       \* a query without filter reads no owner: of the collections that
       \* differ in owners only, one is walked, and the sample collection
       /\ base = QAll => (docs = SampleDocs \/ \A d \in docs : d.grp = "g1")
       /\ LET tok == IF start.valid THEN encodeCursor(start)
                     ELSE IF garbage THEN Garbage ELSE NoToken
          IN sess' = [IdleSess EXCEPT
                        !.pc = IF tok = NoToken THEN "offset" ELSE "cursor",
                        !.sortKey = sortKey, !.limit = limit, !.base = base,
                        !.start = start, !.first = tok, !.cursor = tok]
  /\ UNCHANGED <<docs, codec, cartVars, treeVars, auxVars>>

\* the cursor branch of the handler (product controller lines 206-209 and
\* 246-281), and the client taking nextCursor for its next request
CursorRequest ==
  /\ sess.pc = "cursor"
  /\ LET p == parsePagination(RawAbsent, sess.limit)
         cursor == decodeCursor(sess.cursor)
         pg == CursorPage(docs, sess.base, sess.sortKey, p.limitNumber, cursor)
     IN sess' =
          IF sess.sortKey # "absent" /\ sess.sortKey # "oldest"
          THEN [sess EXCEPT !.pc = "done", !.status = "InvalidRequest"]
          ELSE IF ~cursor.ok
          THEN [sess EXCEPT !.pc = "done", !.status = "InvalidCursor"]
          ELSE [sess EXCEPT !.out = @ \o Ids(pg.items), !.pages = @ + 1,
                            !.cursor = pg.nextCursor, !.status = "ok",
                            !.pc = IF pg.hasNextPage THEN "cursor" ELSE "offset"]
  /\ UNCHANGED <<docs, codec, cartVars, treeVars, auxVars>>

\* the offset branch of the handler (product controller lines 206-208 and
\* 283-310), and the client asking for the next page while there is one
OffsetRequest ==
  /\ sess.pc = "offset"
  /\ LET p == parsePagination(sess.page, sess.limit)
         matching == {d \in docs : Matches(d, sess.base)}
         skip == (p.pageNumber - 1) * p.limitNumber
         total == Cardinality(matching)
         totalPages == CeilDiv(total, p.limitNumber)
     IN \E o \in SortedOrders(matching, buildSort(sess.sortKey)) :
          LET items == Ids(SubSeq(o, skip + 1, Min2(skip + p.limitNumber, total)))
          IN sess' = [sess EXCEPT
                     !.offOut = @ \o items,
                     !.last = [answered |-> TRUE, asked |-> sess.page,
                               total |-> total, page |-> p.pageNumber,
                               limit |-> p.limitNumber, totalPages |-> totalPages,
                               skip |-> skip, items |-> items],
                     !.page = RawNum(p.pageNumber + 1),
                     !.pc = IF p.pageNumber >= totalPages THEN "done" ELSE "offset"]
  /\ UNCHANGED <<docs, codec, cartVars, treeVars, auxVars>>

(***************************************************************************)
(* A client that writes its own tokens: a payload that spells a position in *)
(* one of the text forms below, or fails to.                                *)
(***************************************************************************)
TimeForms == {"iso", "isoShort", "number", "missing", "empty", "unparseable"}
IdForms == {"hex", "HEX", "missing", "short", "nonhex"}
ForgedTimes == 0..(MaxTime + 1) \cup {10}
ForgedIds == 0..(NRec + 1) \cup {10, MaxObjectId}

\* the text forms of an instant
SpellTime(t, form) ==
  CASE form = "iso" -> JStr(Digits(t, TimeDigits, Dec) \o <<"Z">>)
    [] form = "isoShort" ->
         JStr(SubSeq(Digits(t, TimeDigits, Dec), 1, TimeDigits - 1) \o <<"Z">>)
    [] form = "number" -> JNum(t)
    [] form = "missing" -> JAbsent
    [] form = "empty" -> JStr(<<>>)
    [] OTHER -> JStr(<<"x">> \o Digits(t, TimeDigits, Dec) \o <<"Z">>)
\* the forms that denote the instant t: the full ISO text, the ISO text
\* without its last field when that field is zero, the number of milliseconds
\* (0 is falsy in the handler's presence check)
TimeFormValid(t, form) ==
  \/ form = "iso"
  \/ form = "isoShort" /\ t % 10 = 0
  \/ form = "number" /\ t # 0

\* the text forms of an identifier
SpellId(n, form) ==
  CASE form = "hex" -> JStr(Digits(n, IdHexLen, HexLower))
    [] form = "HEX" -> JStr(Digits(n, IdHexLen, HexUpper))
    [] form = "missing" -> JAbsent
    [] form = "short" -> JStr(SubSeq(Digits(n, IdHexLen, HexLower), 2, IdHexLen))
    [] OTHER -> JStr(<<"g">> \o SubSeq(Digits(n, IdHexLen, HexLower), 2, IdHexLen))
IdFormValid(form) == form \in {"hex", "HEX"}

ForgedBegin ==
  /\ sess.pc = "idle"
  /\ codec.pc = "idle"
  /\ \E sortKey \in SortKeys, limit \in LimitInputs, base \in BaseQueries,
        t \in ForgedTimes, n \in ForgedIds, tf \in TimeForms, idf \in IdForms,
        garbage \in BOOLEAN :
       /\ garbage => (t = 0 /\ n = 0 /\ tf = "iso" /\ idf = "hex")
       /\ tf = "isoShort" => t % 10 = 0
       /\ sess' = [IdleSess EXCEPT
                     !.pc = "cursor",
                     !.sortKey = sortKey, !.limit = limit, !.base = base,
                     !.start = IF ~garbage /\ TimeFormValid(t, tf) /\ IdFormValid(idf)
                               THEN Position(t, n) ELSE NoPosition,
                     !.first = IF garbage THEN Garbage
                               ELSE Token(SpellTime(t, tf), SpellId(n, idf)),
                     !.cursor = IF garbage THEN Garbage
                                ELSE Token(SpellTime(t, tf), SpellId(n, idf))]
  /\ UNCHANGED <<docs, codec, cartVars, treeVars, auxVars>>

\* a request without cursor: the offset branch with any page and limit
\* parameter
OffsetBegin ==
  /\ sess.pc = "idle"
  /\ codec.pc = "idle"
  /\ \E sortKey \in SortKeys, page \in PageInputs, limit \in OffsetLimits,
        base \in BaseQueries :
       sess' = [IdleSess EXCEPT !.pc = "offset", !.sortKey = sortKey,
                                !.page = page, !.limit = limit, !.base = base]
  /\ UNCHANGED <<docs, codec, cartVars, treeVars, auxVars>>

\* another request creates a document of the listed collection while the
\* client walks it by cursor (Model.create in the create handlers): the new
\* document has a fresh _id and any owner, and its createdAt may equal or lie
\* on either side of those of the stored documents
InsertDoc ==
  /\ sess.pc = "cursor"
  /\ Cardinality(docs) < NRec + MaxInserts
  /\ \E t \in 1..MaxTime, g \in Groups :
       docs' = docs \cup {[id |-> Cardinality(docs) + 1, createdAt |-> t, grp |-> g]}
  /\ UNCHANGED <<sess, codec, cartVars, treeVars, auxVars>>

\* encodeCursor on a document
EncodeDoc ==
  /\ codec.pc = "idle"
  /\ sess.pc = "idle"
  /\ \E t \in 0..MaxDate, n \in 0..MaxObjectId :
       /\ t <= MaxTime + 1 \/ n <= NRec + 1
       /\ codec' = [IdleCodec EXCEPT !.pc = "encoded", !.doc = Position(t, n),
                                     !.token = encodeCursor(Position(t, n))]
  /\ UNCHANGED <<docs, sess, cartVars, treeVars, auxVars>>

\* decodeCursor on the token
DecodeToken ==
  /\ codec.pc = "encoded"
  /\ codec' = [codec EXCEPT !.pc = "decoded", !.decoded = decodeCursor(codec.token)]
  /\ UNCHANGED <<docs, sess, cartVars, treeVars, auxVars>>

(***************************************************************************)
(* The category tree and the descendant resolver.  Categories are 1..NCat,  *)
(* all created as roots; parentOf[c] = 0 is parentCategoryId null.  The     *)
(* resolver awaits one Category.find per round, so a round is a step.       *)
(***************************************************************************)
Cats == 1..NCat
NoCat == 0
\* a well-formed id of no category
GhostCat == NCat + 1
\* rounds the model follows a resolver that nothing stops
MaxRounds == NCat + 2

\* a string that is no ObjectId
BadId == NCat + 2

\* the products: every category has one, the first has two
ProductIds == 1..(NCat + 1)
ProductCategory == [p \in ProductIds |-> ((p - 1) % NCat) + 1]

IdleRes == [pc |-> "idle", ancestorId |-> NoCat, maxDepth |-> 0,
            includeSelf |-> FALSE, ids |-> <<>>, queue |-> <<>>, depth |-> 0,
            lookups |-> 0,
            route |-> "all", categoryId |-> NoCat, ancNamed |-> FALSE,
            resolved |-> FALSE, nameLookups |-> 0, finds |-> 0,
            products |-> {}, status |-> "none"]

\* the documents of a find without a sort, as a list: in _id order
RECURSIVE IdOrder(_)
IdOrder(S) ==
  IF S = {} THEN <<>>
  ELSE LET m == CHOOSE x \in S : \A y \in S : x <= y
       IN <<m>> \o IdOrder(S \ {m})
Range(seq) == {seq[i] : i \in 1..Len(seq)}

\* updateCategory with a parentCategoryId in the body (category controller
\* lines 342-433): the category and, if given, the parent must exist
updateCategory ==
  /\ res.pc = "idle"
  /\ \E id \in Cats \cup {GhostCat}, parentCategoryId \in Cats \cup {NoCat, GhostCat} :
       parentOf' = IF id \in Cats /\ parentCategoryId \in Cats \cup {NoCat}
                   THEN [parentOf EXCEPT ![id] = parentCategoryId]
                   ELSE parentOf
  /\ UNCHANGED <<res, cartVars, pageVars, auxVars>>

\* parsePositiveInt(value, label), lines 109-116; 0 stands for undefined
\* (both are falsy in `maxDepth && ...`), -1 for the 400 it throws
BadInt == -1
parsePositiveInt(raw) ==
  IF raw.kind = "absent" THEN 0
  ELSE IF raw.n < 1 THEN BadInt
  ELSE raw.n

\* a break test that lets one more round through
DepthReachedLate(maxDepth, depth) == maxDepth # 0 /\ depth > maxDepth
\* `if (maxDepth && depth >= maxDepth) break`, line 149
DepthReached(maxDepth, depth) == maxDepth # 0 /\ depth >= maxDepth

\* a find that matches the children of the first id of the queue only
ChildrenOfFirst(queue) == {c \in Cats : parentOf[c] = queue[1]}
\* Category.find({parentCategoryId: {$in: queue}}), lines 150-153
Children(queue) == {c \in Cats : parentOf[c] \in Range(queue)}

\* a test that forgets the ancestor given by name
BothNamedIdOnly(categoryId, ancestorCategoryId, ancestorCategoryName) ==
  categoryId # NoCat /\ ancestorCategoryId # NoCat
\* `categoryId && (ancestorCategoryId || ancestorCategoryName)`, line 215
BothNamed(categoryId, ancestorCategoryId, ancestorCategoryName) ==
  categoryId # NoCat /\ (ancestorCategoryId # NoCat \/ ancestorCategoryName # NoCat)

\* findCategoryIdByName(name), lines 132-139: the name of category c is
\* written c, GhostCat is the name of no category, BadId a blank name
findCategoryIdByName(name) == IF name \in Cats THEN name ELSE NoCat

\* buildProductQuery, lines 166-181, on categoryId and categoryIds (resolved:
\* categoryIds is defined)
buildProductQuery(categoryId, resolved, categoryIds) ==
  IF resolved /\ Len(categoryIds) > 0 THEN QIn(Range(categoryIds))
  ELSE IF categoryId # NoCat THEN QCat(categoryId)
  ELSE QAll

\* the answer of a request that ends before any resolution and any query
Rejected(route, categoryId, ancNamed, nameLookups, status) ==
  [IdleRes EXCEPT !.pc = "rejected", !.route = route, !.categoryId = categoryId,
                  !.ancNamed = ancNamed, !.nameLookups = nameLookups,
                  !.status = status]

\* a product list request up to its first query: the route handlers (lines
\* 533-542), listProducts lines 211-234 and getDescendantCategoryIds lines
\* 141-146.  routeId is req.params.id or the name in req.query.name.
ResolveStart ==
  /\ res.pc = "idle"
  /\ \E route \in {"all", "byCatId", "byCatName"},
        routeId \in {1, GhostCat, BadId},
        queryCategoryId \in {NoCat, 1, GhostCat, BadId},
        ancestorCategoryId \in Cats \cup {NoCat, GhostCat, BadId},
        ancestorCategoryName \in {NoCat, 1, GhostCat},
        raw \in {RawAbsent} \cup {RawNum(n) : n \in 0..MaxDepthIn},
        includeSelf \in BOOLEAN :
       LET override == CASE route = "byCatId" -> routeId
                         [] route = "byCatName" -> findCategoryIdByName(routeId)
                         [] OTHER -> NoCat
           categoryId == IF override # NoCat THEN override ELSE queryCategoryId
           ancNamed == ancestorCategoryId # NoCat \/ ancestorCategoryName # NoCat
           before == IF route = "byCatName" THEN 1 ELSE 0
           ancestorId == IF ancestorCategoryName # NoCat
                         THEN findCategoryIdByName(ancestorCategoryName)
                         ELSE ancestorCategoryId
           maxDepth == parsePositiveInt(raw)
       IN \* requests that differ in a parameter the handler does not read
          \* are taken once
          /\ route = "all" => routeId = BadId
          /\ route # "all" => queryCategoryId = NoCat
          /\ ancestorCategoryName # NoCat => ancestorCategoryId \in {NoCat, BadId}
          /\ (~ancNamed \/ route # "all" \/ queryCategoryId # NoCat)
               => (raw = RawAbsent /\ ~includeSelf)
          /\ (route # "all" \/ queryCategoryId # NoCat)
               => ancestorCategoryId \in {NoCat, 1, BadId}
          /\ res' =
               IF route = "byCatId" /\ routeId = BadId
               THEN Rejected(route, routeId, ancNamed, 0, "InvalidRequest")
               ELSE IF route = "byCatName" /\ routeId = BadId
               THEN Rejected(route, NoCat, ancNamed, 0, "InvalidRequest")
               ELSE IF route = "byCatName" /\ override = NoCat
               THEN Rejected(route, NoCat, ancNamed, 1, "NotFound")
               ELSE IF BothNamed(categoryId, ancestorCategoryId, ancestorCategoryName)
               THEN Rejected(route, categoryId, ancNamed, before, "InvalidRequest")
               ELSE IF categoryId = BadId \/ ancestorCategoryId = BadId
               THEN Rejected(route, categoryId, ancNamed, before, "InvalidRequest")
               ELSE IF ancestorCategoryName # NoCat /\ ancestorId = NoCat
               THEN Rejected(route, categoryId, ancNamed, before + 1, "NotFound")
               ELSE IF ancNamed /\ maxDepth = BadInt
               THEN Rejected(route, categoryId, ancNamed,
                             before + (IF ancestorCategoryName # NoCat THEN 1 ELSE 0),
                             "InvalidRequest")
               ELSE IF ancNamed
               THEN [IdleRes EXCEPT
                       !.pc = "loop", !.ancestorId = ancestorId,
                       !.maxDepth = maxDepth, !.includeSelf = includeSelf,
                       !.ids = IF includeSelf THEN <<ancestorId>> ELSE <<>>,
                       !.queue = <<ancestorId>>,
                       !.route = route, !.categoryId = categoryId,
                       !.ancNamed = TRUE, !.resolved = TRUE,
                       !.nameLookups =
                          before + (IF ancestorCategoryName # NoCat THEN 1 ELSE 0)]
               ELSE [IdleRes EXCEPT !.pc = "query", !.route = route,
                                    !.categoryId = categoryId,
                                    !.nameLookups = before]
  /\ UNCHANGED <<parentOf, cartVars, pageVars, auxVars>>

\* listProducts lines 236-310 for the first page of the default size, which
\* holds every product of the model: the query built from categoryId and
\* categoryIds, and the products Product.find returns for it
ProductQuery ==
  /\ res.pc \in {"returned", "query"}
  /\ LET query == buildProductQuery(res.categoryId, res.resolved, res.ids)
     IN res' = [res EXCEPT
                  !.pc = "listed", !.status = "ok", !.finds = @ + 1,
                  !.products = {p \in ProductIds :
                                  Matches([id |-> p, category |-> ProductCategory[p]],
                                          query)}]
  /\ UNCHANGED <<parentOf, cartVars, pageVars, auxVars>>

\* one pass of the while loop, lines 148-160, and `return ids` when it breaks
ResolveRound ==
  /\ res.pc = "loop"
  /\ res.depth < MaxRounds
  /\ LET childIds == IdOrder(Children(res.queue))
     IN res' =
          IF Len(res.queue) = 0 \/ DepthReached(res.maxDepth, res.depth)
          THEN [res EXCEPT !.pc = "returned"]
          ELSE IF Len(childIds) = 0
          THEN [res EXCEPT !.pc = "returned", !.lookups = @ + 1]
          ELSE [res EXCEPT !.ids = @ \o childIds, !.queue = childIds,
                           !.depth = @ + 1, !.lookups = @ + 1]
  /\ UNCHANGED <<parentOf, cartVars, pageVars, auxVars>>

(***************************************************************************)
(* Specifications                                                          *)
(***************************************************************************)
(***************************************************************************)
(* Name search of the list endpoints: listProducts compiles                *)
(* new RegExp(escapeRegex(search.trim()), 'i'), getAllCategories sends     *)
(* { $regex: search.trim(), $options: "i" }.  A string is a sequence of    *)
(* one-character strings.                                                  *)
(***************************************************************************)
MaxSearchLen == 3   \* characters of a search string
MaxNameLen == 2     \* characters of a stored name
Alphabet == {"a", "A", ".", " "}
\* the class of /[.*+?^${}()|[\]\\]/
Metachars == {".", "*", "+", "?", "^", "$", "{", "}", "(", ")", "|", "[", "]", "\\"}
Strs(n) == UNION {[1..k -> Alphabet] : k \in 0..n}
SearchInputs == Strs(MaxSearchLen)
StoredNames == Strs(MaxNameLen) \ {<<>>}
Lower(c) == IF c = "A" THEN "a" ELSE c

\* String.prototype.trim
RECURSIVE trimStart(_)
trimStart(s) ==
  IF s # <<>> /\ Head(s) = " " THEN trimStart(Tail(s)) ELSE s
RECURSIVE trimEnd(_)
trimEnd(s) ==
  IF s # <<>> /\ s[Len(s)] = " " THEN trimEnd(SubSeq(s, 1, Len(s) - 1)) ELSE s
trim(s) == trimEnd(trimStart(s))

\* value.replace(/[.*+?^${}()|[\]\\]/g, '\\$&')
RECURSIVE escapeRegex(_)
escapeRegex(value) ==
  IF value = <<>> THEN <<>>
  ELSE (IF Head(value) \in Metachars THEN <<"\\", Head(value)>> ELSE <<Head(value)>>)
         \o escapeRegex(Tail(value))

\* the pattern as the regex engine reads it: a backslash makes the next
\* character a literal, a bare dot stands for any character
RECURSIVE Compile(_)
Compile(pattern) ==
  IF pattern = <<>> THEN <<>>
  ELSE IF Head(pattern) = "\\" /\ Len(pattern) >= 2
  THEN <<[any |-> FALSE, ch |-> pattern[2]]>> \o Compile(SubSeq(pattern, 3, Len(pattern)))
  ELSE <<[any |-> Head(pattern) = ".", ch |-> Head(pattern)]>> \o Compile(Tail(pattern))
\* an unanchored match with the i flag
RegExpTest(pattern, name) ==
  LET t == Compile(pattern)
  IN \E off \in 0..(Len(name) - Len(t)) :
       \A i \in 1..Len(t) : t[i].any \/ Lower(t[i].ch) = Lower(name[off + i])
\* name contains s verbatim, letter case apart
Contains(name, s) ==
  \E off \in 0..(Len(name) - Len(s)) :
    \A i \in 1..Len(s) : Lower(s[i]) = Lower(name[off + i])

IdleFind == [pc |-> "idle", endpoint |-> "none", search |-> <<>>, hits |-> {}]
\* buildProductQuery: if (search) query.name = new RegExp(escapeRegex(...), 'i')
ProductSearch ==
  /\ \E search \in SearchInputs :
       find' = [pc |-> "listed", endpoint |-> "products", search |-> search,
                hits |-> IF search = <<>> THEN StoredNames
                         ELSE {n \in StoredNames :
                                 RegExpTest(escapeRegex(trim(search)), n)}]
  /\ UNCHANGED <<cartVars, pageVars, treeVars, catVars, authVars>>
\* getAllCategories: if (search) query.name = { $regex: search.trim(), ... }
CategorySearch ==
  /\ \E search \in SearchInputs :
       find' = [pc |-> "listed", endpoint |-> "categories", search |-> search,
                hits |-> IF search = <<>> THEN StoredNames
                         ELSE {n \in StoredNames : RegExpTest(trim(search), n)}]
  /\ UNCHANGED <<cartVars, pageVars, treeVars, catVars, authVars>>

(***************************************************************************)
(* createCategory, updateCategory, deleteCategory as concurrent requests   *)
(* (category.controller.js lines 108-167, 342-433, 440-468), one step per  *)
(* database call.  The uploads succeed; an update carries no images.       *)
(***************************************************************************)
NCatProc == 3       \* concurrent category requests
CatProcs == 1..NCatProc
CatNames == {"shoes", "Shoes", "hats"}
NoName == ""        \* normalizeName of an absent name
NameInputs == CatNames \cup {NoName}
\* comparison under collation { locale: "en", strength: 2 }: case apart
Fold(name) == IF name = "Shoes" THEN "shoes" ELSE name
\* what a request sends as :id, 0 being a string that is no ObjectId
CatIdInputs == 0..NCatProc
\* what a request sends as parentCategoryId: nothing, null, an id, or a
\* string that is no ObjectId
ParentInputs ==
  {[kind |-> k, id |-> NoCat] : k \in {"absent", "null", "bad"}}
    \cup {[kind |-> "id", id |-> i] : i \in 1..NCatProc}

IdleCat == [pc |-> "idle", op |-> "none", id |-> 0, name |-> NoName,
            parent |-> [kind |-> "absent", id |-> NoCat], status |-> 0,
            err |-> "none"]
CatDone(st, e) == [IdleCat EXCEPT !.pc = "done", !.status = st, !.err = e]
CanStartCat(p) ==
  creq[p].pc = "idle" /\ \A q \in CatProcs : q < p => creq[q].pc # "idle"

\* Category.findOne({ name }).collation({ locale: "en", strength: 2 }),
\* with _id: { $ne: id } when id is a category's
FindByNameCi(coll, name, id) ==
  {c \in coll : Fold(c.name) = Fold(name) /\ c.id # id}
\* the schema's `unique: true` on name: an index with the default (binary)
\* comparison; a write of name to a document other than c is refused (E11000)
UniqueName(coll, name, id) ==
  \E c \in coll : c.name = name /\ c.id # id
\* Category.exists({ _id })
CategoryExists(coll, id) == \E c \in coll : c.id = id

\* createCategory lines 108-133: validation and the name lookup
CatCreateStart(p) ==
  /\ CanStartCat(p)
  /\ \E name \in NameInputs, parent \in ParentInputs :
       LET r == [IdleCat EXCEPT !.op = "create", !.name = name, !.parent = parent]
       IN \* `parentCategoryId || null`: an absent parent is read as null
          /\ parent.kind # "absent"
          /\ creq' = [creq EXCEPT ![p] =
               IF name = NoName THEN CatDone(400, "invalid")
               ELSE IF FindByNameCi(cats, name, NoCat) # {} THEN CatDone(409, "conflict")
               ELSE IF parent.kind = "bad" THEN CatDone(400, "invalid")
               ELSE IF parent.kind = "id" THEN [r EXCEPT !.pc = "create_parent"]
               ELSE [r EXCEPT !.pc = "create_insert"]]
  /\ UNCHANGED <<cats, catNext, find, authVars, cartVars, pageVars, treeVars>>
\* lines 134-138: Category.exists({ _id: parentCategoryId })
CatCreateParent(p) ==
  LET r == creq[p] IN
  /\ r.pc = "create_parent"
  /\ creq' = [creq EXCEPT ![p] =
       IF CategoryExists(cats, r.parent.id) THEN [r EXCEPT !.pc = "create_insert"]
       ELSE CatDone(404, "notFound")]
  /\ UNCHANGED <<cats, catNext, find, authVars, cartVars, pageVars, treeVars>>
\* lines 159-167: Category.create; E11000 is not caught
CatCreateInsert(p) ==
  LET r == creq[p] IN
  /\ r.pc = "create_insert"
  /\ IF UniqueName(cats, r.name, NoCat)
     THEN /\ creq' = [creq EXCEPT ![p] = CatDone(500, "untyped")]
          /\ UNCHANGED <<cats, catNext>>
     ELSE /\ cats' = cats \cup {[id |-> catNext, name |-> r.name,
                                 parentCategoryId |-> r.parent.id]}
          /\ catNext' = catNext + 1
          /\ creq' = [creq EXCEPT ![p] = CatDone(201, "none")]
  /\ UNCHANGED <<find, authVars, cartVars, pageVars, treeVars>>

\* updateCategory after the name check, lines 373-396: the parent's
\* validation and `No update fields provided`
AfterNameCheck(r) ==
  IF r.parent.kind = "bad" THEN CatDone(400, "invalid")
  ELSE IF r.parent.kind = "id" THEN [r EXCEPT !.pc = "update_parent"]
  ELSE IF r.name = NoName /\ r.parent.kind = "absent" THEN CatDone(400, "invalid")
  ELSE [r EXCEPT !.pc = "update_write"]
\* lines 342-358: validation and Category.findById
CatUpdateStart(p) ==
  /\ CanStartCat(p)
  /\ \E id \in CatIdInputs, name \in NameInputs, parent \in ParentInputs :
       LET r == [IdleCat EXCEPT !.op = "update", !.id = id, !.name = name,
                                !.parent = parent]
           category == {c \in cats : c.id = id}
       IN creq' = [creq EXCEPT ![p] =
            IF id = 0 THEN CatDone(400, "invalid")
            ELSE IF category = {} THEN CatDone(404, "notFound")
            ELSE IF name # NoName /\ \E c \in category : name # c.name
            THEN [r EXCEPT !.pc = "update_name"]
            ELSE AfterNameCheck(r)]
  /\ UNCHANGED <<cats, catNext, find, authVars, cartVars, pageVars, treeVars>>
\* lines 359-370: the name lookup among the other categories
CatUpdateName(p) ==
  LET r == creq[p] IN
  /\ r.pc = "update_name"
  /\ creq' = [creq EXCEPT ![p] =
       IF FindByNameCi(cats, r.name, r.id) # {} THEN CatDone(409, "conflict")
       ELSE AfterNameCheck(r)]
  /\ UNCHANGED <<cats, catNext, find, authVars, cartVars, pageVars, treeVars>>
\* lines 379-388: Category.exists({ _id: parentCategoryId })
CatUpdateParent(p) ==
  LET r == creq[p] IN
  /\ r.pc = "update_parent"
  /\ creq' = [creq EXCEPT ![p] =
       IF CategoryExists(cats, r.parent.id) THEN [r EXCEPT !.pc = "update_write"]
       ELSE CatDone(404, "notFound")]
  /\ UNCHANGED <<cats, catNext, find, authVars, cartVars, pageVars, treeVars>>
\* lines 425-432: Category.findByIdAndUpdate(id, updateData); it answers null
\* for an id of no category, and E11000 is not caught
CatUpdateWrite(p) ==
  LET r == creq[p]
      Updated(c) ==
        [c EXCEPT !.name = IF r.name = NoName THEN @ ELSE r.name,
                  !.parentCategoryId = IF r.parent.kind = "absent" THEN @
                                       ELSE r.parent.id]
  IN /\ r.pc = "update_write"
     /\ IF r.name # NoName /\ CategoryExists(cats, r.id) /\ UniqueName(cats, r.name, r.id)
        THEN /\ creq' = [creq EXCEPT ![p] = CatDone(500, "untyped")]
             /\ cats' = cats
        ELSE /\ cats' = {IF c.id = r.id THEN Updated(c) ELSE c : c \in cats}
             /\ creq' = [creq EXCEPT ![p] = CatDone(200, "none")]
     /\ UNCHANGED <<catNext, find, authVars, cartVars, pageVars, treeVars>>

\* deleteCategory lines 440-451: validation and Category.findById
CatDeleteStart(p) ==
  /\ CanStartCat(p)
  /\ \E id \in CatIdInputs :
       creq' = [creq EXCEPT ![p] =
         IF id = 0 THEN CatDone(400, "invalid")
         ELSE IF ~CategoryExists(cats, id) THEN CatDone(404, "notFound")
         ELSE [IdleCat EXCEPT !.op = "delete", !.id = id, !.pc = "delete_children"]]
  /\ UNCHANGED <<cats, catNext, find, authVars, cartVars, pageVars, treeVars>>
\* lines 452-455: Category.exists({ parentCategoryId: id })
CatDeleteChildren(p) ==
  LET r == creq[p] IN
  /\ r.pc = "delete_children"
  /\ creq' = [creq EXCEPT ![p] =
       IF \E c \in cats : c.parentCategoryId = r.id THEN CatDone(409, "conflict")
       ELSE [r EXCEPT !.pc = "delete_remove"]]
  /\ UNCHANGED <<cats, catNext, find, authVars, cartVars, pageVars, treeVars>>
\* lines 463-467: Category.findByIdAndDelete(id)
CatDeleteRemove(p) ==
  LET r == creq[p] IN
  /\ r.pc = "delete_remove"
  /\ cats' = {c \in cats : c.id # r.id}
  /\ creq' = [creq EXCEPT ![p] = CatDone(200, "none")]
  /\ UNCHANGED <<catNext, find, authVars, cartVars, pageVars, treeVars>>

(***************************************************************************)
(* login, logout, refreshToken of one user as concurrent requests          *)
(* (auth.controller.js lines 9-17, 130-225).  jwt.sign({ id }, secret,     *)
(* { expiresIn }) signs the payload {id, iat, exp} with iat the clock's    *)
(* second: for one user a token is determined by the second it was signed  *)
(* in, and is modelled as that second.                                     *)
(***************************************************************************)
NAuthProc == 3      \* concurrent auth requests
MaxClock == 3       \* seconds the clock runs through
AuthProcs == 1..NAuthProc
NoCookie == 0        \* no cookie / User.refreshToken unset
BadCookie == -1        \* a cookie jwt.verify refuses
generateTokens(now) == now

IdleAuth == [pc |-> "idle", incoming |-> NoCookie, newToken |-> NoCookie, status |-> 0]
AuthDone(st) == [IdleAuth EXCEPT !.pc = "done", !.status = st]
CanStartAuth(p) ==
  areq[p].pc = "idle" /\ \A q \in AuthProcs : q < p => areq[q].pc # "idle"
\* the cookies a client may present: a token it was handed, none, a forged one
Cookies == session.issued \cup {NoCookie, BadCookie}
\* `!user || user.refreshToken !== incomingRefreshToken` (the user exists)
IsCurrentToken(stored, incoming) == stored = incoming

\* a second passes
Tick ==
  /\ session.now < MaxClock
  /\ session' = [session EXCEPT !.now = @ + 1]
  /\ UNCHANGED <<areq, find, catVars, cartVars, pageVars, treeVars>>
\* login lines 158-163, with valid credentials: generateTokens, then
\* user.refreshToken = refreshToken; user.save()
Login(p) ==
  /\ CanStartAuth(p)
  /\ LET t == generateTokens(session.now)
     IN session' = [session EXCEPT !.refreshToken = t, !.issued = @ \cup {t}]
  /\ areq' = [areq EXCEPT ![p] = AuthDone(200)]
  /\ UNCHANGED <<find, catVars, cartVars, pageVars, treeVars>>
\* logout lines 175-195: $unset refreshToken of the token's user when the
\* cookie verifies; 200 in every case
Logout(p) ==
  /\ CanStartAuth(p)
  /\ \E incoming \in Cookies :
       /\ session' = IF incoming \in {NoCookie, BadCookie} THEN session
                     ELSE [session EXCEPT !.refreshToken = NoCookie,
                                          !.loggedOut = @ \cup {incoming}]
       /\ areq' = [areq EXCEPT ![p] = AuthDone(200)]
  /\ UNCHANGED <<find, catVars, cartVars, pageVars, treeVars>>
\* refreshToken lines 197-212: the cookie, jwt.verify, User.findById, the
\* comparison with user.refreshToken, generateTokens and the assignment
RefreshStart(p) ==
  /\ CanStartAuth(p)
  /\ \E incoming \in Cookies :
       areq' = [areq EXCEPT ![p] =
         IF incoming \in {NoCookie, BadCookie} THEN AuthDone(401)
         ELSE IF ~IsCurrentToken(session.refreshToken, incoming) THEN AuthDone(401)
         ELSE [IdleAuth EXCEPT !.pc = "refresh_save", !.incoming = incoming,
                               !.newToken = generateTokens(session.now)]]
  /\ UNCHANGED <<session, find, catVars, cartVars, pageVars, treeVars>>
\* lines 213-219: user.save({ validateBeforeSave: false }), cookies, 200
RefreshSave(p) ==
  LET r == areq[p] IN
  /\ r.pc = "refresh_save"
  /\ session' = [session EXCEPT !.refreshToken = r.newToken,
                                !.issued = @ \cup {r.newToken},
                                !.refreshed[r.incoming] = @ + 1]
  /\ areq' = [areq EXCEPT ![p] = AuthDone(200)]
  /\ UNCHANGED <<find, catVars, cartVars, pageVars, treeVars>>

InitPage == /\ sess = IdleSess
            /\ codec = IdleCodec
InitTree == /\ parentOf = [c \in Cats |-> NoCat]
            /\ res = IdleRes
InitAux == /\ find = IdleFind
           /\ cats = {}
           /\ catNext = 1
           /\ creq = [p \in CatProcs |-> IdleCat]
           \* refreshed and loggedOut record, per token, the successful
           \* refreshes and the logouts it was presented to
           /\ session = [refreshToken |-> NoCookie, now |-> 1, issued |-> {},
                         refreshed |-> [t \in 1..MaxClock |-> 0],
                         loggedOut |-> {}]
           /\ areq = [p \in AuthProcs |-> IdleAuth]

NextCart ==
  \E p \in Procs :
    \/ AddStart(p)
    \/ AddFindOne(p)
    \/ AddSave(p)
    \/ AddCreate(p)
    \/ AddToSet(p)
    \/ AddConflictRead(p)
    \/ AddConflictSave(p)
    \/ UpdStart(p)
    \/ UpdSave(p)
    \/ DelStart(p)
    \/ DelPull(p)
    \/ ClearStart(p)
    \/ ClearSet(p)
    \/ ListStart(p)
    \/ ListFindOne(p)
    \/ ListCreate(p)
    \/ ListConflictRead(p)
    \/ ListDelete(p)


\* the cart and the wishlist under concurrent requests
Init == InitCart /\ docs = {} /\ InitPage /\ InitTree /\ InitAux
Next == NextCart
Spec == Init /\ [][Next]_vars

\* a listing walked by cursor, then by page number
InitWalk == InitCart /\ docs \in DocSets /\ InitPage /\ InitTree /\ InitAux
NextPage == WalkBegin \/ CursorRequest \/ OffsetRequest
SpecPage == InitWalk /\ [][NextPage]_vars

\* the codec on documents, and requests with tokens the client wrote
InitCodec == InitCart /\ docs = SampleDocs /\ InitPage /\ InitTree /\ InitAux
NextCodec ==
  ForgedBegin \/ OffsetBegin \/ CursorRequest \/ OffsetRequest \/ EncodeDoc \/ DecodeToken
SpecCodec == InitCodec /\ [][NextCodec]_vars

\* the sample collection walked by cursor while documents are created
NextLive == WalkBegin \/ CursorRequest \/ InsertDoc
SpecLive == InitCodec /\ [][NextLive]_vars

\* the category tree
NextTree == updateCategory \/ ResolveStart \/ ResolveRound \/ ProductQuery
SpecTree == Init /\ [][NextTree]_vars

\* addMyList requests only, sequential and concurrent
NextList ==
  \E p \in Procs :
    ListStart(p) \/ ListFindOne(p) \/ ListCreate(p) \/ ListConflictRead(p)
SpecList == Init /\ [][NextList]_vars

\* the category collection under concurrent create, update and delete
NextCat ==
  \E p \in CatProcs :
    \/ CatCreateStart(p)
    \/ CatCreateParent(p)
    \/ CatCreateInsert(p)
    \/ CatUpdateStart(p)
    \/ CatUpdateName(p)
    \/ CatUpdateParent(p)
    \/ CatUpdateWrite(p)
    \/ CatDeleteStart(p)
    \/ CatDeleteChildren(p)
    \/ CatDeleteRemove(p)
SpecCat == Init /\ [][NextCat]_vars

\* the refresh token of one user under concurrent auth requests
NextAuth ==
  \/ Tick
  \/ \E p \in AuthProcs : Login(p) \/ Logout(p) \/ RefreshStart(p) \/ RefreshSave(p)
SpecAuth == Init /\ [][NextAuth]_vars

\* name searches against the stored names
NextSearch == ProductSearch \/ CategorySearch
SpecSearch == Init /\ [][NextSearch]_vars

(***************************************************************************)
(* Properties of the cart and the wishlist                                 *)
(***************************************************************************)
AllDone == \A p \in Procs : proc[p].pc = "done"
ItemsOf(coll, u, pid) == {d \in coll : d.userId = u /\ d.productId = pid}

\* C1: when all NProc requests are addToCart calls for the same (user,
\* product) with quantity 1, the stock is at least NProc and the cart began
\* empty, then once all have been answered there is exactly one cart item for
\* the pair and its quantity is NProc.
C1_ConcurrentAddsConverge ==
  \A u \in Users, pid \in Products :
    (AllDone /\ unitAdds[u][pid] = NProc /\ countInstock[pid] >= NProc)
      => \E d \in cart : /\ ItemsOf(cart, u, pid) = {d}
                         /\ d.quantity = NProc

\* C2: the cart collection and the wishlist collection each hold at most one
\* document per (userId, productId), in every reachable state.
C2_OnePerPair ==
  /\ \A d, e \in cart :
       (d.userId = e.userId /\ d.productId = e.productId) => d = e
  /\ \A d, e \in myList :
       (d.userId = e.userId /\ d.productId = e.productId) => d = e

\* two requests raced to create the same pair: one document is stored and the
\* loser of the race has been refused with E11000, while the wishlist holds
\* the same pair
C2_Witness ==
  \E p \in Procs : /\ proc[p].pc = "add_conflictRead"
                    /\ ItemsOf(cart, proc[p].user, proc[p].productId) # {}
                    /\ ItemsOf(myList, proc[p].user, proc[p].productId) # {}

DocOf(id) == CHOOSE d \in docs : d.id = id
\* the first request was a cursor request and the walk by cursor is over
CursorWalkOver == sess.pc \in {"offset", "done"} /\ sess.status = "ok"
\* the matching documents strictly after the position the walk started from
AfterStart ==
  {d \in docs : /\ Matches(d, sess.base)
                /\ CursorBefore(sess.start, d, sess.sortKey = "oldest")}

\* C4: once a client has followed nextCursor until hasNextPage was false, the
\* documents it received, page after page, are the matching documents that
\* follow the starting cursor, each exactly once, in (createdAt, id) order of
\* the direction, also when documents share a createdAt.
C4_CursorWalkComplete ==
  CursorWalkOver =>
    /\ \A i, j \in 1..Len(sess.out) :
         i < j => CursorBefore(DocOf(sess.out[i]), DocOf(sess.out[j]),
                               sess.sortKey = "oldest")
    /\ Range(sess.out) = {d.id : d \in AfterStart}

\* a walk of one document per page over the whole collection, in which two
\* documents of the same createdAt came on consecutive pages
C4_Witness ==
  /\ CursorWalkOver
  /\ sess.pages = NRec
  /\ Len(sess.out) = NRec
  /\ \E i \in 1..(NRec - 1) :
       DocOf(sess.out[i]).createdAt = DocOf(sess.out[i + 1]).createdAt

DistinctCreatedAt == \A d, e \in docs : d.createdAt = e.createdAt => d = e
\* the walk began in front of every document of its direction
StartedAtHead ==
  sess.first = encodeCursor(IF sess.sortKey = "oldest" THEN HeadOldest ELSE HeadNewest)

\* C5: on a collection whose createdAt values are all distinct, the pages of
\* a walk by cursor from the head of the listing, put end to end, are the
\* pages 1, 2, ... of the same listing by page number, put end to end.
C5_OffsetEqualsCursor ==
  (sess.pc = "done" /\ sess.status = "ok" /\ StartedAtHead /\ DistinctCreatedAt)
    => sess.out = sess.offOut

\* both walks took several pages over the whole collection, in newest order
C5_Witness ==
  /\ sess.pc = "done" /\ sess.status = "ok" /\ StartedAtHead /\ DistinctCreatedAt
  /\ sess.sortKey = "absent"
  /\ sess.pages >= 2 /\ sess.page.n > 2
  /\ Len(sess.offOut) = NRec

(***************************************************************************)
(* Properties of the codec                                                 *)
(***************************************************************************)
\* C6: decodeCursor on the token encodeCursor made of a document gives a
\* cursor with the document's createdAt instant and the document's id.
C6_RoundTrip ==
  codec.pc = "decoded" =>
    /\ codec.decoded.ok
    /\ codec.decoded.createdAt = codec.doc.createdAt
    /\ codec.decoded.id = codec.doc.id

\* a round trip of the largest id at an instant whose text has no zero digit
\* at its end
C6_Witness ==
  /\ codec.pc = "decoded"
  /\ codec.doc.id = MaxObjectId
  /\ codec.doc.createdAt % 10 # 0

\* the first request carried a cursor and has been answered, and its sort
\* key let it reach decodeCursor
FirstAnswered ==
  /\ sess.pc \notin {"idle", "cursor"} \/ sess.pages > 0
  /\ sess.status # "none"
  /\ sess.sortKey \in {"absent", "oldest"}
\* the token is one encodeCursor gives for some document
Encodable(tok) ==
  /\ tok.kind = "json"
  /\ \E t \in 0..MaxDate : tok.createdAt = JStr(toISOString(t))
  /\ \E n \in 0..MaxObjectId : tok.id = JStr(toHexString(n))

\* C10 as stated: a list request whose token decodeCursor turned into a
\* cursor carried a token that encodeCursor can produce.
C10_OnlyEncodedTokens ==
  (FirstAnswered /\ sess.status = "ok") => Encodable(sess.first)

\* C10, amended: a token whose payload spells a position (a createdAt that
\* reads as an instant, in any of its text forms or as a nonzero number, and
\* an id of hex digits of either case) is decoded to that position, and the
\* walk gives the matching documents strictly after it; every other token is
\* answered 400 'Invalid cursor' and no document.
C10_DecodesExactlyPositions ==
  FirstAnswered =>
    IF sess.start.valid
    THEN /\ sess.status = "ok"
         /\ CursorWalkOver => Range(sess.out) = {d.id : d \in AfterStart}
    ELSE sess.status = "InvalidCursor" /\ sess.out = <<>>

\* a token encodeCursor never gives -- a numeric createdAt and an upper-case
\* id -- was decoded and the walk from it returned documents
C10_Witness ==
  /\ CursorWalkOver
  /\ sess.first.kind = "json"
  /\ sess.first.createdAt.k = "num"
  /\ sess.first.id = JStr(Digits(10, IdHexLen, HexUpper))
  /\ sess.out # <<>>

(***************************************************************************)
(* Properties of the descendant resolver                                   *)
(***************************************************************************)
\* the k-th ancestor of c, NoCat above a root
RECURSIVE Up(_, _)
Up(c, k) ==
  IF k = 0 THEN c
  ELSE IF Up(c, k - 1) \notin Cats THEN NoCat
  ELSE parentOf[Up(c, k - 1)]
IsForest == \A c \in Cats : \A k \in 1..NCat : Up(c, k) # c
\* the categories at distance 1..maxDepth below a (any distance for 0)
Below(a, maxDepth) ==
  {c \in Cats : \E k \in 1..NCat : Up(c, k) = a /\ (maxDepth = 0 \/ k <= maxDepth)}

\* C7: on a forest, what getDescendantCategoryIds returns is, as a set, the
\* categories at distance 1..maxDepth below the ancestor (at any distance
\* when maxDepth is absent), and the ancestor itself iff includeSelf.
C7_DescendantsOnForest ==
  (res.pc = "returned" /\ IsForest) =>
    Range(res.ids) = Below(res.ancestorId, res.maxDepth)
                       \cup (IF res.includeSelf THEN {res.ancestorId} ELSE {})

\* the chain 1 -> 2 -> 3 -> 4 resolved from 1 with maxDepth 2 and without
\* the ancestor itself
C7_Witness ==
  /\ res.pc = "returned" /\ IsForest
  /\ parentOf[1] = NoCat /\ parentOf[2] = 1 /\ parentOf[3] = 2 /\ parentOf[4] = 3
  /\ res.ancestorId = 1 /\ res.maxDepth = 2 /\ ~res.includeSelf
  /\ Range(res.ids) = {2, 3}

\* C8: with a maxDepth, on any parent graph, the resolver makes at most
\* maxDepth child lookups: every lookup before the last found children and
\* raised depth, and the loop breaks when depth reaches maxDepth.
C8_BoundedByMaxDepth ==
  res.maxDepth # 0 =>
    /\ res.lookups <= res.maxDepth
    /\ res.depth <= res.lookups
    /\ res.pc = "loop" => res.lookups = res.depth

\* a self-parented ancestor resolved with the largest maxDepth: the resolver
\* returned after maxDepth lookups that all found children
C8_Witness ==
  /\ res.pc = "returned"
  /\ res.ancestorId \in Cats /\ parentOf[res.ancestorId] = res.ancestorId
  /\ res.maxDepth = MaxDepthIn
  /\ res.lookups = MaxDepthIn

\* C9: without a maxDepth the resolver still returns on any parent graph: it
\* never goes NCat levels down, as no path without a repeated category is
\* that long.
C9_TerminatesWithoutMaxDepth ==
  res.maxDepth = 0 => res.depth < NCat

(***************************************************************************)
(* Properties of the list handlers' request checks                         *)
(***************************************************************************)
\* the first request of the session has been answered
Answered == sess.pc # "idle" /\ (sess.pc = "cursor" => sess.pages > 0)

\* C11: a list request with a well-formed cursor is served when its sort key
\* is newest, oldest or absent, and is answered InvalidRequest, with no
\* document, when its sort key is price_asc, price_desc or rating_desc.
C11_CursorSortKeys ==
  (Answered /\ sess.start.valid) =>
    IF sess.sortKey \in {"absent", "newest", "oldest"}
    THEN sess.status = "ok"
    ELSE sess.status = "InvalidRequest" /\ sess.out = <<>>

\* C12: a product list request that names a category id, in the query or by
\* its route, and an ancestor category, by id or by name, is answered
\* InvalidRequest; no descendant lookup, no lookup of the ancestor's name and
\* no product query is made for it.
C12_CategoryAndAncestorRejected ==
  (res.pc # "idle" /\ res.categoryId # NoCat /\ res.ancNamed) =>
    /\ res.pc = "rejected"
    /\ res.status = "InvalidRequest"
    /\ res.lookups = 0
    /\ res.finds = 0
    /\ res.products = {}
    /\ res.nameLookups = (IF res.route = "byCatName" THEN 1 ELSE 0)

\* the route by category id, with an existing category, together with an
\* ancestor: refused
C12_Witness ==
  /\ res.pc = "rejected"
  /\ res.route = "byCatId"
  /\ res.categoryId \in Cats
  /\ res.ancNamed
  /\ res.status = "InvalidRequest"

\* C20: every product of a listing that names an ancestor category has its
\* category among the ids getDescendantCategoryIds returned for the request,
\* also when it returned none.
C20_ProductsWithinResolvedSet ==
  (res.pc = "listed" /\ res.resolved) =>
    \A p \in res.products : ProductCategory[p] \in Range(res.ids)

\* C13: when the insert of addToCart hits the duplicate key, the handler
\* re-reads the (buyer, product) relation exactly once and applies the
\* increment to it as the update branch does; when the second read finds
\* nothing the request is answered with an internal error (500), there is
\* no further retry
C13_SingleRetryThenInternalError ==
  [][\A p \in Procs :
       LET r == proc[p]
           found == FindByPair(cart, r.user, r.productId)
       IN /\ (r.pc = "add_create" /\ proc'[p] # r
                 /\ DuplicateKey(cart, r.user, r.productId))
              => proc'[p].pc = "add_conflictRead"
          /\ (r.pc = "add_conflictRead" /\ proc'[p] # r) =>
               IF found = {}
               THEN proc'[p].pc = "done" /\ proc'[p].status = 500
               ELSE \E d \in found :
                      IF ExceedsStock(d.quantity + r.qty, r.stock)
                      THEN proc'[p].pc = "done" /\ proc'[p].status = 400
                      ELSE /\ proc'[p].pc = "add_conflictSave"
                           /\ proc'[p].newQty = d.quantity + r.qty
          /\ (r.pc = "add_conflictSave" /\ proc'[p] # r) => proc'[p].pc = "done"
     ]_vars

\* C14: a step of a request of user u leaves every cart item, wishlist item
\* and shopping_cart array of the other users as it was; updateCartItemQty,
\* deleteCartItem and deleteMyList called with the id of another user's
\* relation (and parameters that pass validation) change nothing and answer
\* 404
OthersUntouched(u) ==
  /\ {d \in cart' : d.userId # u} = {d \in cart : d.userId # u}
  /\ {d \in myList' : d.userId # u} = {d \in myList : d.userId # u}
  /\ \A v \in Users \ {u} : shoppingCart'[v] = shoppingCart[v]
NotFoundNoChange(p) ==
  /\ proc'[p].pc = "done" /\ proc'[p].status = 404
  /\ cart' = cart /\ myList' = myList /\ shoppingCart' = shoppingCart
C14_NoCrossUserMutation ==
  [][\A p \in Procs :
       /\ (proc[p].pc = "idle" /\ proc'[p].pc = "done") =>
            /\ cart' = cart /\ shoppingCart' = shoppingCart
            /\ myList' # myList =>
                 \A u \in Users, id \in ItemInputs :
                   ListDeleteBy(p, u, id) => OthersUntouched(u)
            /\ proc'[p].foreign => NotFoundNoChange(p)
       /\ (proc[p].pc = "idle" /\ proc'[p].pc \notin {"idle", "done"})
            => (~proc'[p].foreign /\ OthersUntouched(proc'[p].user))
       /\ (proc[p].pc \notin {"idle", "done"} /\ proc'[p] # proc[p])
            => OthersUntouched(proc[p].user)
     ]_vars
\* C14 witness: a request that named another user's relation has been
\* answered 404 while relations are stored
C14_Witness ==
  \E p \in Procs :
    /\ proc[p].pc = "done" /\ proc[p].status = 404 /\ proc[p].foreign
    /\ cart # {} /\ myList # {}

\* C15: whatever the page and limit parameters (absent, not a number, zero,
\* negative, oversized), the offset branch answers with a page >= 1 (the
\* asked one when it is a number >= 1, else 1), a limit in 1..100 (the asked
\* one when in that range, 10 when absent or not a number), skips
\* (page - 1) * limit documents and reports totalPages = ceil(total / limit)
C15_OffsetClamped ==
  LET a == sess.last
      matching == {d \in docs : Matches(d, sess.base)}
      left == IF a.total > a.skip THEN a.total - a.skip ELSE 0
  IN a.answered =>
       /\ a.page >= 1
       /\ (a.asked.kind = "num" /\ a.asked.n >= 1) => a.page = a.asked.n
       /\ (a.asked.kind # "num" \/ a.asked.n < 1) => a.page = 1
       /\ a.limit >= 1 /\ a.limit <= 100
       /\ sess.limit.kind # "num" => a.limit = 10
       /\ (sess.limit.kind = "num" /\ sess.limit.n >= 1 /\ sess.limit.n <= 100)
            => a.limit = sess.limit.n
       /\ a.skip = (a.page - 1) * a.limit
       /\ a.total = Cardinality(matching)
       /\ Len(a.items) = (IF left < a.limit THEN left ELSE a.limit)
       /\ \A i \in 1..Len(a.items) : \E d \in matching : d.id = a.items[i]
       /\ a.totalPages * a.limit >= a.total
       /\ (a.totalPages - 1) * a.limit < a.total
\* C15 witness: an offset request with a page that is not a number and a
\* limit above the cap has been answered with documents and limit 100
C15_Witness ==
  /\ sess.last.answered /\ sess.last.asked = RawText
  /\ sess.limit = RawNum(MaxLimit + 1) /\ sess.last.limit = MaxLimit
  /\ sess.last.items # <<>>

\* C16: the first cursor request of a session, with cursor c = sess.start
\* and effective limit L, returns the first min(L, k) of the k matching
\* documents strictly after c in (createdAt, id) order of the direction, in
\* that order; hasNextPage (the client goes on by cursor) iff k > L;
\* nextCursor is the cursor of the last returned document when hasNextPage
\* and is null otherwise
C16_SinglePage ==
  LET L == parsePagination(RawAbsent, sess.limit).limitNumber
      oldest == sess.sortKey = "oldest"
      k == Cardinality(AfterStart)
      n == Len(sess.out)
  IN (sess.pages = 1 /\ sess.status = "ok" /\ sess.start.valid) =>
       /\ n = (IF k < L THEN k ELSE L)
       /\ \A i \in 1..n : \E d \in AfterStart : d.id = sess.out[i]
       /\ \A i, j \in 1..n :
            i < j => CursorBefore(DocOf(sess.out[i]), DocOf(sess.out[j]), oldest)
       /\ \A d \in AfterStart :
            d.id \notin Range(sess.out) =>
              \A i \in 1..n : CursorBefore(DocOf(sess.out[i]), d, oldest)
       /\ (sess.pc = "cursor") <=> (k > L)
       /\ sess.cursor = (IF k > L THEN encodeCursor(DocOf(sess.out[n])) ELSE NoToken)
\* C16 witness: one request with limit 1 from the cursor of a document
\* returned the next document, which has the createdAt of the cursor, and a
\* next cursor, two documents lying after the cursor
C16_Witness ==
  /\ sess.pages = 1 /\ sess.status = "ok" /\ sess.pc = "cursor"
  /\ \E d \in docs : sess.start = Position(d.createdAt, d.id)
  /\ Cardinality(AfterStart) = 2
  /\ Len(sess.out) = 1
  /\ DocOf(sess.out[1]).createdAt = sess.start.createdAt
  /\ sess.cursor = encodeCursor(DocOf(sess.out[1]))

\* C17: every document a cursor request returned satisfies the base query of
\* the request, whatever the cursor; with the base query {userId: U} (here
\* grp = "g1") and a cursor taken from a document of another user, only
\* documents of U are returned
C17_BaseFilterKept ==
  \A i \in 1..Len(sess.out) : Matches(DocOf(sess.out[i]), sess.base)
\* C17 witness: a walk under the base query of one user from the cursor of
\* another user's document returned a document, while a document of the
\* other user lies after the cursor
C17_Witness ==
  /\ sess.status = "ok" /\ sess.base = QEq("g1") /\ sess.out # <<>>
  /\ \E d \in docs : d.grp # "g1" /\ sess.start = Position(d.createdAt, d.id)
  /\ \E e \in docs : e.grp # "g1" /\ CursorBefore(sess.start, e, sess.sortKey = "oldest")

\* C18: on a collection that does not change, the pages of an offset walk in
\* newest or oldest order (page 1, 2, ... up to totalPages), put end to end,
\* hold every matching document exactly once, in (createdAt, id) order, also
\* when documents share a createdAt
C18_OffsetPagesPartition ==
  LET matching == {d \in docs : Matches(d, sess.base)}
  IN (sess.pc = "done" /\ sess.first = NoToken /\ sess.last.answered
        /\ sess.sortKey \in {"absent", "newest", "oldest"}) =>
       /\ Len(sess.offOut) = Cardinality(matching)
       /\ Range(sess.offOut) = {d.id : d \in matching}
       /\ \A i, j \in 1..Len(sess.offOut) :
            i < j => CursorBefore(DocOf(sess.offOut[i]), DocOf(sess.offOut[j]),
                                  sess.sortKey = "oldest")

\* C19: while documents are created during a walk by cursor, no document is
\* returned twice, and once the walk is over every matching document that
\* was stored when the walk began and lies after the starting cursor has been
\* returned
Preexisting == {d \in docs : d.id \in DocIds}
C19_WalkUnderInserts ==
  /\ \A i, j \in 1..Len(sess.out) : i # j => sess.out[i] # sess.out[j]
  /\ CursorWalkOver =>
       \A d \in Preexisting \cap AfterStart : d.id \in Range(sess.out)
\* C19 witness: a walk of several pages over documents of the start is
\* over, and a matching document created during it, behind the cursor of
\* that moment, was not returned
C19_Witness ==
  /\ CursorWalkOver /\ sess.pages >= 2
  /\ \E d \in AfterStart : d.id \notin DocIds /\ d.id \notin Range(sess.out)
  /\ Preexisting \cap AfterStart # {}

(***************************************************************************)
(* Properties of the cart handlers' answers                                *)
(***************************************************************************)
\* C21: when addToCart finds the cart item of the pair, on its first read or
\* on the read after the duplicate key, and the stored quantity plus the
\* requested one is above the product's stock, the request is answered 400
\* 'Requested quantity exceeds available stock' and no cart item changes
C21_OverStockChangesNothing ==
  [][\A p \in Procs :
       LET r == proc[p]
           found == FindByPair(cart, r.user, r.productId)
       IN (/\ r.pc \in {"add_findOne", "add_conflictRead"}
           /\ proc'[p] # r
           /\ \E d \in found : d.quantity + r.qty > countInstock[r.productId])
          => /\ proc'[p].pc = "done"
             /\ proc'[p].status = 400 /\ proc'[p].err = "stock"
             /\ cart' = cart
     ]_vars
\* C21 witness: a request has been answered with the stock error, and
\* another add of the pair is at its read after the duplicate key, about to
\* be refused for the stock as well
C21_Witness ==
  /\ \E p \in Procs : proc[p].pc = "done" /\ proc[p].err = "stock"
  /\ \E q \in Procs :
       /\ proc[q].pc = "add_conflictRead"
       /\ \E d \in FindByPair(cart, proc[q].user, proc[q].productId) :
            d.quantity + proc[q].qty > countInstock[d.productId]

\* C22: the ids getDescendantCategoryIds returns hold no id twice, whatever
\* the category graph, maxDepth and includeSelf
C22_NoDuplicateIds ==
  res.pc \in {"returned", "listed"} =>
    \A i, j \in 1..Len(res.ids) : i # j => res.ids[i] # res.ids[j]

\* C23: a search string used in a name pattern match selects exactly the
\* records whose name contains it verbatim (letter case apart), in the
\* product listing and in the category listing alike
C23_SearchIsLiteral ==
  find.pc = "listed" =>
    find.hits = {n \in StoredNames : Contains(n, trim(find.search))}

\* C24: an addToCart or updateCartItemQuantity call, whatever deleteCartItem
\* and clearCart calls interleave with it, ends with success or an error the
\* handler raised as an ApiError, never with another exception
C24_TypedOutcome ==
  [][\A p \in Procs :
       (/\ proc[p].pc \in {"add_findOne", "add_save", "add_create", "add_addToSet",
                           "add_conflictRead", "add_conflictSave", "upd_save"}
        /\ proc'[p].pc = "done")
       => proc'[p].err # "untyped"
    ]_vars

\* C25: addMyList calls alone, sequential or concurrent, for a product that
\* exists: every call that gets past validation ends with 201 if it stored
\* the entry and with 200 otherwise, and when it ends the pair has exactly
\* one entry; no pair ever has two
C25_AddMyListIdempotent ==
  [][/\ \A u \in Users, pid \in Products :
          Cardinality(FindByPair(myList', u, pid)) <= 1
     /\ \A p \in Procs :
          LET r == proc[p] IN
          (/\ r.pc \in {"list_findOne", "list_create", "list_conflictRead"}
           /\ proc'[p].pc = "done")
          => /\ proc'[p].status \in {200, 201}
             /\ proc'[p].status = 201 <=> myList' # myList
             /\ Cardinality(FindByPair(myList', r.user, r.productId)) = 1
    ]_vars
\* one call stored the entry and answered 201 while another call of the same
\* user, which had also found nothing, is at its re-read after E11000
C25_Witness ==
  \E p, q \in Procs :
    /\ proc[p].pc = "done" /\ proc[p].status = 201
    /\ proc[q].pc = "list_conflictRead"
    /\ Cardinality(FindByPair(myList, proc[q].user, proc[q].productId)) = 1

\* C26: every stored cart item has a quantity of at least 1; addToCart and
\* updateCartItemQuantity answer 400 to a quantity that is not a finite
\* number or that normalizes to less than 1, and addToCart reads an absent
\* quantity as 1
MustReject(raw) ==
  raw.kind = "text" \/ (raw.kind = "num" /\ normalizeQuantity(raw) < 1)
C26_QuantityAtLeastOne ==
  [][/\ \A d \in cart' : d.quantity >= 1
     /\ \A p \in Procs, u \in Users, raw \in QtyInputs :
          /\ \A pid \in Products :
               AddStartBy(p, u, pid, raw) =>
                 IF MustReject(raw)
                 THEN proc'[p].pc = "done" /\ proc'[p].status = 400
                 ELSE raw.kind = "absent" =>
                        proc'[p].pc = "add_findOne" /\ proc'[p].qty = 1
          /\ \A id \in ItemInputs \ {0} :
               (UpdStartBy(p, u, id, raw) /\ (MustReject(raw) \/ raw.kind = "absent"))
                 => proc'[p].pc = "done" /\ proc'[p].status = 400
    ]_vars

\* C27: whenever no request is in flight, each user's shopping_cart holds
\* exactly the ids of that user's stored cart items
C27_ShoppingCartMatchesItems ==
  (\A p \in Procs : proc[p].pc \in {"idle", "done"})
    => \A u \in Users : shoppingCart[u] = {d.id : d \in {e \in cart : e.userId = u}}

\* C28: after any interleaving of createCategory, updateCategory and
\* deleteCategory, every category with a parentCategoryId refers to a
\* category that exists
C28_ParentExists ==
  \A c \in cats :
    c.parentCategoryId # NoCat => CategoryExists(cats, c.parentCategoryId)

\* C29: no two categories have names that are equal ignoring case, after any
\* interleaving of createCategory and updateCategory
C29_NamesUniqueIgnoringCase ==
  \A c, d \in cats : c.id # d.id => Fold(c.name) # Fold(d.name)

\* C30: a refresh token is single-use: no token is accepted by more than one
\* successful refreshToken call, and none by a call that starts after a
\* logout with that token
C30_RefreshTokenSingleUse ==
  [][/\ \A t \in 1..MaxClock : session'.refreshed[t] <= 1
     /\ \A p \in AuthProcs :
          (areq[p].pc = "idle" /\ areq'[p].pc = "refresh_save")
            => areq'[p].incoming \notin session.loggedOut
    ]_vars

====
